---- MODULE Spec2Model ----
(***************************************************************************)
(* Order book, nanosecond batching driver and gap strategy of              *)
(* memduhb/orderbook_strategy.                                             *)
(*                                                                         *)
(*   book   the Orderbook object (src/src/orderbook.cpp)                   *)
(*   strat  the Strategy object  (strategy.cpp)                            *)
(*   cur_ns, have_batch, ns_batch, pc   the locals of the batching loop    *)
(*                                                                         *)
(* A std::list<Order>::iterator is modelled as the 1-based position of its *)
(* node in the level's FIFO.  List iterators stay valid while other nodes  *)
(* are inserted or erased, so every insertion or erasure in a FIFO moves   *)
(* the positions held by the index entries that point behind it.           *)
(***************************************************************************)
EXTENDS Integers, Sequences, FiniteSets, TLC

\* ------------------------------------------------------------------ bounds
MaxBookOrders == 3       \* SpecBook: orders (indexed or not) the book holds
MaxFifo == 3             \* SpecFifo: orders the one price level holds

\* --------------------------------------------------------------- constants
PRICE_TICK == 10
MAX_SUSPICIOUS_QUANTITY == 1000000000
TARGET_BOOK == 73616

TIGHT_SPREAD == PRICE_TICK
GAP_SPREAD == 2 * PRICE_TICK
MARKET_CLOSE_STATE == "P_MARJ_YAYIN_KAPANIS"
CONTINUOUS_STATE == "P_SUREKLI_ISLEM"

\* ------------------------------------------------------------------ events
\* MessageType: 'O' 'A' 'E' 'D' and Other (0); Side: 'B' 'S' and Unknown (0)
Event0 ==
  [type |-> "Other", nanosec |-> 0, ranking_time |-> 0, orderbook_id |-> 0,
   side |-> "U", order_id |-> 0, quantity |-> 0, price |-> 0,
   ranking_seq_num |-> 0, orderbook_state |-> ""]

make_state(book_id, state, ns) ==
  [Event0 EXCEPT !.type = "O", !.orderbook_id = book_id,
                 !.orderbook_state = state, !.nanosec = ns]

make_add(book_id, id, s, px, qty, rt, rsn, ns) ==
  [Event0 EXCEPT !.type = "A", !.orderbook_id = book_id, !.order_id = id,
                 !.side = s, !.price = px, !.quantity = qty,
                 !.ranking_time = rt, !.ranking_seq_num = rsn, !.nanosec = ns]

make_exec(book_id, id, s, qty, ns) ==
  [Event0 EXCEPT !.type = "E", !.orderbook_id = book_id, !.order_id = id,
                 !.side = s, !.quantity = qty, !.nanosec = ns]

make_del(book_id, id, s, ns) ==
  [Event0 EXCEPT !.type = "D", !.orderbook_id = book_id, !.order_id = id,
                 !.side = s, !.nanosec = ns]

\* --------------------------------------------------------------- sequences
InsertAt(s, k, x) == SubSeq(s, 1, k - 1) \o <<x>> \o SubSeq(s, k, Len(s))

RemoveAt(s, k) == SubSeq(s, 1, k - 1) \o SubSeq(s, k + 1, Len(s))

RECURSIVE SumQty(_)
SumQty(s) == IF s = <<>> THEN 0 ELSE Head(s).quantity + SumQty(Tail(s))

RECURSIVE SumOver(_, _)
SumOver(f, S) ==
  IF S = {} THEN 0
  ELSE LET x == CHOOSE y \in S : TRUE IN f[x] + SumOver(f, S \ {x})

MaxOf(S) == CHOOSE x \in S : \A y \in S : y <= x
MinOf(S) == CHOOSE x \in S : \A y \in S : x <= y

\* -------------------------------------------------------------- order book
VARIABLES book

EmptyBook ==
  [bids_ |-> <<>>, asks_ |-> <<>>, index_ |-> <<>>,
   trading_open_ |-> FALSE, last_exec_price_ |-> 0]

\* the side maps taken for one another
MapOf_swapped(s) == IF s = "B" THEN "asks_" ELSE "bids_"

\* a book that keeps the orders of unknown side with the bids
MapOf_unknown_with_bids(s) == IF s = "S" THEN "asks_" ELSE "bids_"

\* the side map an order of side s lives in: bids_ for Buy, asks_ otherwise
MapOf(s) == IF s = "B" THEN "bids_" ELSE "asks_"

EraseKey(f, k) == [x \in DOMAIN f \ {k} |-> f[x]]

\* handle_state that closes trading on the sentinel only and otherwise
\* leaves a closed book closed and an open book open, unless told to open
handle_state_close_on_sentinel(b, event) ==
  [b EXCEPT !.trading_open_ =
     IF event.orderbook_state = CONTINUOUS_STATE THEN TRUE
     ELSE IF event.orderbook_state = MARKET_CLOSE_STATE THEN FALSE
     ELSE @]

handle_state(b, event) ==
  [b EXCEPT !.trading_open_ = (event.orderbook_state = CONTINUOUS_STATE)]

level_for(b, s, price) ==
  LET m == MapOf(s)
      emplaced == IF price \in DOMAIN b[m] THEN b[m]
                  ELSE b[m] @@ (price :> [price |-> 0, aggregate |-> 0,
                                          num_orders |-> 0, fifo |-> <<>>])
      lvl == emplaced[price]
  IN [b EXCEPT ![m] = [emplaced EXCEPT ![price] =
                         IF lvl.price = 0 THEN [lvl EXCEPT !.price = price]
                         ELSE lvl]]

\* InsertPos comparing ranking_time alone, the sequence number forgotten
InsertPos_time_only(fifo, order) ==
  LET later == {i \in 1..Len(fifo) :
                  order.ranking_time < fifo[i].ranking_time}
  IN IF later = {} THEN Len(fifo) + 1 ELSE MinOf(later)

\* InsertPos that stops at the first node whose ranking key is not smaller
InsertPos_before_ties(fifo, order) ==
  LET later == {i \in 1..Len(fifo) :
                  \/ order.ranking_time < fifo[i].ranking_time
                  \/ /\ order.ranking_time = fifo[i].ranking_time
                     /\ order.ranking_seq_num <= fifo[i].ranking_seq_num}
  IN IF later = {} THEN Len(fifo) + 1 ELSE MinOf(later)

\* lines 44-52: the first node whose ranking key is greater, else end()
InsertPos(fifo, order) ==
  LET later == {i \in 1..Len(fifo) :
                  \/ order.ranking_time < fifo[i].ranking_time
                  \/ /\ order.ranking_time = fifo[i].ranking_time
                     /\ order.ranking_seq_num < fifo[i].ranking_seq_num}
  IN IF later = {} THEN Len(fifo) + 1 ELSE MinOf(later)

\* handle_add that leaves the index entry of a live id as it is
handle_add_keep_live_entry(b, event) ==
  LET order == [id |-> event.order_id, side |-> event.side,
                price |-> event.price, quantity |-> event.quantity,
                ranking_time |-> event.ranking_time,
                ranking_seq_num |-> event.ranking_seq_num]
      m == MapOf(event.side)
      b1 == level_for(b, event.side, event.price)
      level == b1[m][event.price]
      pos == InsertPos(level.fifo, order)
      inserted == [level EXCEPT !.fifo = InsertAt(@, pos, order),
                                !.aggregate = @ + order.quantity,
                                !.num_orders = @ + 1]
      moved == [i \in DOMAIN b1.index_ |->
                  LET h == b1.index_[i]
                  IN IF MapOf(h.side) = m /\ h.price = event.price /\ h.it >= pos
                     THEN [h EXCEPT !.it = @ + 1] ELSE h]
  IN [b1 EXCEPT ![m] = [@ EXCEPT ![event.price] = inserted],
                !.index_ = moved @@ (order.id :> [side |-> order.side,
                                                  price |-> order.price,
                                                  it |-> pos])]

handle_add(b, event) ==
  LET order == [id |-> event.order_id, side |-> event.side,
                price |-> event.price, quantity |-> event.quantity,
                ranking_time |-> event.ranking_time,
                ranking_seq_num |-> event.ranking_seq_num]
      m == MapOf(event.side)
      b1 == level_for(b, event.side, event.price)
      level == b1[m][event.price]
      pos == InsertPos(level.fifo, order)
      inserted == [level EXCEPT !.fifo = InsertAt(@, pos, order),
                                !.aggregate = @ + order.quantity,
                                !.num_orders = @ + 1]
      moved == [i \in DOMAIN b1.index_ |->
                  LET h == b1.index_[i]
                  IN IF MapOf(h.side) = m /\ h.price = event.price /\ h.it >= pos
                     THEN [h EXCEPT !.it = @ + 1] ELSE h]
  IN [b1 EXCEPT ![m] = [@ EXCEPT ![event.price] = inserted],
                !.index_ = (order.id :> [side |-> order.side,
                                         price |-> order.price,
                                         it |-> pos]) @@ moved]

\* erase_level_if_empty that normalises the aggregate and keeps the level
erase_level_if_empty_keep(b, s, price) ==
  LET m == MapOf(s)
  IN IF price \notin DOMAIN b[m] THEN b
     ELSE LET lvl == b[m][price]
              agg == IF lvl.num_orders = 0 THEN 0 ELSE lvl.aggregate
          IN [b EXCEPT ![m] = [@ EXCEPT ![price] =
                                 [lvl EXCEPT !.aggregate = agg]]]

erase_level_if_empty(b, s, price) ==
  LET m == MapOf(s)
  IN IF price \notin DOMAIN b[m] THEN b
     ELSE LET lvl == b[m][price]
              agg == IF lvl.num_orders = 0 THEN 0 ELSE lvl.aggregate
          IN IF lvl.num_orders = 0 /\ agg = 0
             THEN [b EXCEPT ![m] = EraseKey(@, price)]
             ELSE [b EXCEPT ![m] = [@ EXCEPT ![price] =
                                      [lvl EXCEPT !.aggregate = agg]]]

\* RemoveOrder that forgets to take the order's quantity off the aggregate
RemoveOrder_keep_aggregate(b, id) ==
  LET handle == b.index_[id]
      m == MapOf(handle.side)
      level == b[m][handle.price]
      removed == [level EXCEPT !.num_orders = @ - 1,
                               !.fifo = RemoveAt(@, handle.it)]
      rest == EraseKey(b.index_, id)
      moved == [i \in DOMAIN rest |->
                  LET h == rest[i]
                  IN IF MapOf(h.side) = m /\ h.price = handle.price
                        /\ h.it > handle.it
                     THEN [h EXCEPT !.it = @ - 1] ELSE h]
  IN erase_level_if_empty(
       [b EXCEPT ![m] = [@ EXCEPT ![handle.price] = removed], !.index_ = moved],
       handle.side, handle.price)

\* lines 101-105 and 135-139: the order behind handle leaves its level and
\* the index; the iterators of the nodes behind it stay on their nodes.
\* handle refers into the index node that index_.erase(hit) has just freed
\* when handle.side and handle.price are read for erase_level_if_empty (105,
\* 139).  Nothing allocates between the erase and the read, and the build of
\* the Makefile (g++ -O2, no sanitizer) reads the side and the price the
\* node held, as a run of that build over 100000 removals shows; a build
\* with -fsanitize=address stops at the read.  The model is of the
\* Makefile's build: the level is looked up by the order's side and price.
RemoveOrder(b, id) ==
  LET handle == b.index_[id]
      m == MapOf(handle.side)
      level == b[m][handle.price]
      removed == [level EXCEPT !.aggregate = @ - level.fifo[handle.it].quantity,
                               !.num_orders = @ - 1,
                               !.fifo = RemoveAt(@, handle.it)]
      rest == EraseKey(b.index_, id)
      moved == [i \in DOMAIN rest |->
                  LET h == rest[i]
                  IN IF MapOf(h.side) = m /\ h.price = handle.price
                        /\ h.it > handle.it
                     THEN [h EXCEPT !.it = @ - 1] ELSE h]
  IN erase_level_if_empty(
       [b EXCEPT ![m] = [@ EXCEPT ![handle.price] = removed], !.index_ = moved],
       handle.side, handle.price)

\* handle_exec whose partial branch also counts the order out of its level
handle_exec_partial_drops_count(b, event) ==
  IF event.order_id \notin DOMAIN b.index_ THEN b
  ELSE IF event.quantity = 0 \/ event.quantity > MAX_SUSPICIOUS_QUANTITY THEN b
  ELSE
    LET handle == b.index_[event.order_id]
        m == MapOf(handle.side)
        level == b[m][handle.price]
        current_price == IF event.price = 0 THEN handle.price ELSE event.price
        b1 == [b EXCEPT !.last_exec_price_ = current_price]
    IN IF event.quantity >= level.fifo[handle.it].quantity
       THEN RemoveOrder(b1, event.order_id)
       ELSE [b1 EXCEPT ![m] = [@ EXCEPT ![handle.price] =
               [level EXCEPT !.fifo = [@ EXCEPT ![handle.it] =
                                         [@ EXCEPT !.quantity = @ - event.quantity]],
                             !.aggregate = @ - event.quantity,
                             !.num_orders = @ - 1]]]

\* handle_exec without the fallback to the order's price (line 89)
handle_exec_event_price_only(b, event) ==
  IF event.order_id \notin DOMAIN b.index_ THEN b
  ELSE IF event.quantity = 0 \/ event.quantity > MAX_SUSPICIOUS_QUANTITY THEN b
  ELSE
    LET handle == b.index_[event.order_id]
        m == MapOf(handle.side)
        level == b[m][handle.price]
        b1 == [b EXCEPT !.last_exec_price_ = event.price]
    IN IF event.quantity >= level.fifo[handle.it].quantity
       THEN RemoveOrder(b1, event.order_id)
       ELSE [b1 EXCEPT ![m] = [@ EXCEPT ![handle.price] =
               [level EXCEPT !.fifo = [@ EXCEPT ![handle.it] =
                                         [@ EXCEPT !.quantity = @ - event.quantity]],
                             !.aggregate = @ - event.quantity]]]

\* handle_exec that records the event's price before it looks the order up
handle_exec_price_before_lookup(b, event) ==
  IF event.order_id \notin DOMAIN b.index_
  THEN [b EXCEPT !.last_exec_price_ = event.price]
  ELSE IF event.quantity = 0 \/ event.quantity > MAX_SUSPICIOUS_QUANTITY THEN b
  ELSE
    LET handle == b.index_[event.order_id]
        m == MapOf(handle.side)
        level == b[m][handle.price]
        current_price == IF event.price = 0 THEN handle.price ELSE event.price
        b1 == [b EXCEPT !.last_exec_price_ = current_price]
    IN IF event.quantity >= level.fifo[handle.it].quantity
       THEN RemoveOrder(b1, event.order_id)
       ELSE [b1 EXCEPT ![m] = [@ EXCEPT ![handle.price] =
               [level EXCEPT !.fifo = [@ EXCEPT ![handle.it] =
                                         [@ EXCEPT !.quantity = @ - event.quantity]],
                             !.aggregate = @ - event.quantity]]]

\* handle_exec that removes only when the event exceeds the remaining quantity
handle_exec_strictly_more(b, event) ==
  IF event.order_id \notin DOMAIN b.index_ THEN b
  ELSE IF event.quantity = 0 \/ event.quantity > MAX_SUSPICIOUS_QUANTITY THEN b
  ELSE
    LET handle == b.index_[event.order_id]
        m == MapOf(handle.side)
        level == b[m][handle.price]
        current_price == IF event.price = 0 THEN handle.price ELSE event.price
        b1 == [b EXCEPT !.last_exec_price_ = current_price]
    IN IF event.quantity > level.fifo[handle.it].quantity
       THEN RemoveOrder(b1, event.order_id)
       ELSE [b1 EXCEPT ![m] = [@ EXCEPT ![handle.price] =
               [level EXCEPT !.fifo = [@ EXCEPT ![handle.it] =
                                         [@ EXCEPT !.quantity = @ - event.quantity]],
                             !.aggregate = @ - event.quantity]]]

\* handle_exec whose partial branch forgets the level aggregate (line 111)
handle_exec_stale_aggregate(b, event) ==
  IF event.order_id \notin DOMAIN b.index_ THEN b
  ELSE IF event.quantity = 0 \/ event.quantity > MAX_SUSPICIOUS_QUANTITY THEN b
  ELSE
    LET handle == b.index_[event.order_id]
        m == MapOf(handle.side)
        level == b[m][handle.price]
        current_price == IF event.price = 0 THEN handle.price ELSE event.price
        b1 == [b EXCEPT !.last_exec_price_ = current_price]
    IN IF event.quantity >= level.fifo[handle.it].quantity
       THEN RemoveOrder(b1, event.order_id)
       ELSE [b1 EXCEPT ![m] = [@ EXCEPT ![handle.price] =
               [level EXCEPT !.fifo = [@ EXCEPT ![handle.it] =
                                         [@ EXCEPT !.quantity = @ - event.quantity]]]]]

\* handle_exec that takes any quantity
handle_exec_any_quantity(b, event) ==
  IF event.order_id \notin DOMAIN b.index_ THEN b
  ELSE
    LET handle == b.index_[event.order_id]
        m == MapOf(handle.side)
        level == b[m][handle.price]
        current_price == IF event.price = 0 THEN handle.price ELSE event.price
        b1 == [b EXCEPT !.last_exec_price_ = current_price]
    IN IF event.quantity >= level.fifo[handle.it].quantity
       THEN RemoveOrder(b1, event.order_id)
       ELSE [b1 EXCEPT ![m] = [@ EXCEPT ![handle.price] =
               [level EXCEPT !.fifo = [@ EXCEPT ![handle.it] =
                                         [@ EXCEPT !.quantity = @ - event.quantity]],
                             !.aggregate = @ - event.quantity]]]

handle_exec(b, event) ==
  IF event.order_id \notin DOMAIN b.index_ THEN b
  ELSE IF event.quantity = 0 \/ event.quantity > MAX_SUSPICIOUS_QUANTITY THEN b
  ELSE
    LET handle == b.index_[event.order_id]
        m == MapOf(handle.side)
        level == b[m][handle.price]
        current_price == IF event.price = 0 THEN handle.price ELSE event.price
        b1 == [b EXCEPT !.last_exec_price_ = current_price]
    IN IF event.quantity >= level.fifo[handle.it].quantity
       THEN RemoveOrder(b1, event.order_id)
       ELSE [b1 EXCEPT ![m] = [@ EXCEPT ![handle.price] =
               [level EXCEPT !.fifo = [@ EXCEPT ![handle.it] =
                                         [@ EXCEPT !.quantity = @ - event.quantity]],
                             !.aggregate = @ - event.quantity]]]

\* handle_delete that leaves an order with nothing remaining where it is
handle_delete_when_remaining(b, event) ==
  IF event.order_id \notin DOMAIN b.index_ THEN b
  ELSE LET handle == b.index_[event.order_id]
           level == b[MapOf(handle.side)][handle.price]
       IN IF level.fifo[handle.it].quantity = 0 THEN b
          ELSE RemoveOrder(b, event.order_id)

handle_delete(b, event) ==
  IF event.order_id \notin DOMAIN b.index_ THEN b
  ELSE RemoveOrder(b, event.order_id)

apply(b, event) ==
  CASE event.type = "O" -> handle_state(b, event)
    [] event.type = "A" -> handle_add(b, event)
    [] event.type = "E" -> handle_exec(b, event)
    [] event.type = "D" -> handle_delete(b, event)
    [] OTHER -> b

\* ----------------------------------------------------------------- queries
trading_open(b) == b.trading_open_

has_top(b) == DOMAIN b.bids_ # {} /\ DOMAIN b.asks_ # {}

order_count(b) == Cardinality(DOMAIN b.index_)

NonzeroBids(b) == {p \in DOMAIN b.bids_ : b.bids_[p].aggregate > 0}
NonzeroAsks(b) == {p \in DOMAIN b.asks_ : b.asks_[p].aggregate > 0}

\* the keys of a side map in the order its iteration visits them: bids_
\* compares with std::greater, asks_ with std::less
RECURSIVE Descending(_)
Descending(S) ==
  IF S = {} THEN <<>> ELSE <<MaxOf(S)>> \o Descending(S \ {MaxOf(S)})

RECURSIVE Ascending(_)
Ascending(S) ==
  IF S = {} THEN <<>> ELSE <<MinOf(S)>> \o Ascending(S \ {MinOf(S)})

\* the loop of the four first_nonzero_* functions: the first key, in
\* iteration order, whose level has a positive aggregate; <<>> if the loop
\* runs to the end
RECURSIVE first_nonzero(_, _)
first_nonzero(levels, keys) ==
  IF keys = <<>> THEN <<>>
  ELSE IF levels[Head(keys)].aggregate > 0 THEN <<Head(keys)>>
  ELSE first_nonzero(levels, Tail(keys))

\* first_nonzero_price_bid iterating bids_ from the lowest price up
first_nonzero_price_bid_ascending(b) ==
  LET hit == first_nonzero(b.bids_, Ascending(DOMAIN b.bids_))
  IN IF hit = <<>> THEN 0 ELSE hit[1]

first_nonzero_price_bid(b) ==
  LET hit == first_nonzero(b.bids_, Descending(DOMAIN b.bids_))
  IN IF hit = <<>> THEN 0 ELSE hit[1]

first_nonzero_qty_bid(b) ==
  LET hit == first_nonzero(b.bids_, Descending(DOMAIN b.bids_))
  IN IF hit = <<>> THEN 0 ELSE b.bids_[hit[1]].aggregate

first_nonzero_price_ask(b) ==
  LET hit == first_nonzero(b.asks_, Ascending(DOMAIN b.asks_))
  IN IF hit = <<>> THEN 0 ELSE hit[1]

first_nonzero_qty_ask(b) ==
  LET hit == first_nonzero(b.asks_, Ascending(DOMAIN b.asks_))
  IN IF hit = <<>> THEN 0 ELSE b.asks_[hit[1]].aggregate

\* the loop of snapshot_n that counts every level it visits towards n
RECURSIVE take_levels_counting_all(_, _, _)
take_levels_counting_all(levels, keys, n) ==
  IF keys = <<>> \/ n = 0 THEN <<>>
  ELSE IF levels[Head(keys)].aggregate > 0
  THEN <<<<Head(keys), levels[Head(keys)].aggregate>>>>
       \o take_levels_counting_all(levels, Tail(keys), n - 1)
  ELSE take_levels_counting_all(levels, Tail(keys), n - 1)

\* one loop of snapshot_n: it runs while levels are left and fewer than n
\* were taken, and takes a level when its aggregate is positive
RECURSIVE take_levels(_, _, _)
take_levels(levels, keys, n) ==
  IF keys = <<>> \/ n = 0 THEN <<>>
  ELSE IF levels[Head(keys)].aggregate > 0
  THEN <<<<Head(keys), levels[Head(keys)].aggregate>>>>
       \o take_levels(levels, Tail(keys), n - 1)
  ELSE take_levels(levels, Tail(keys), n)

snapshot_n(b, n) ==
  [bids_out |-> take_levels(b.bids_, Descending(DOMAIN b.bids_), n),
   asks_out |-> take_levels(b.asks_, Ascending(DOMAIN b.asks_), n)]

best_bid_price(b) == first_nonzero_price_bid(b)
best_bid_quantity(b) == first_nonzero_qty_bid(b)
best_ask_price(b) == first_nonzero_price_ask(b)
best_ask_quantity(b) == first_nonzero_qty_ask(b)
last_exec_price(b) == b.last_exec_price_

\* number of orders held in the FIFOs of both sides
TotalOrders(b) ==
  SumOver([p \in DOMAIN b.bids_ |-> Len(b.bids_[p].fifo)], DOMAIN b.bids_)
  + SumOver([p \in DOMAIN b.asks_ |-> Len(b.asks_[p].fifo)], DOMAIN b.asks_)

SumNumOrders(b) ==
  SumOver([p \in DOMAIN b.bids_ |-> b.bids_[p].num_orders], DOMAIN b.bids_)
  + SumOver([p \in DOMAIN b.asks_ |-> b.asks_[p].num_orders], DOMAIN b.asks_)

\* ---------------------------------------------------------------- strategy
VARIABLES strat

Strategy(target_book, order_quantity, max_position, min_position) ==
  [target_book_ |-> target_book, order_quantity_ |-> order_quantity,
   max_position_ |-> max_position, min_position_ |-> min_position,
   position_ |-> 0, prev_bid_ |-> 0, prev_ask_ |-> 0, realized_pnl_ |-> 0,
   day_closed_ |-> FALSE, have_prev_ |-> FALSE]

Min(a, b) == IF a < b THEN a ELSE b

max_buy(s) ==
  IF s.position_ < s.max_position_ THEN s.max_position_ - s.position_ ELSE 0

max_sell(s) ==
  IF s.position_ > s.min_position_ THEN s.position_ - s.min_position_ ELSE 0

\* what try_buy and try_sell return: whether an order was placed
try_buy_result(s) == max_buy(s) # 0

try_sell_result(s) == max_sell(s) # 0

\* a buy that fills the whole order quantity whatever the headroom
try_buy_unclamped(s, price) ==
  IF max_buy(s) = 0 THEN s
  ELSE LET fill_quantity == s.order_quantity_
       IN [s EXCEPT !.realized_pnl_ = @ - fill_quantity * price,
                    !.position_ = @ + fill_quantity]

try_buy(s, price) ==
  IF max_buy(s) = 0 THEN s
  ELSE LET fill_quantity == Min(s.order_quantity_, max_buy(s))
       IN [s EXCEPT !.realized_pnl_ = @ - fill_quantity * price,
                    !.position_ = @ + fill_quantity]

\* a sell that fills the whole order quantity whatever the headroom
try_sell_unclamped(s, price) ==
  IF max_sell(s) = 0 THEN s
  ELSE LET fill_quantity == s.order_quantity_
       IN [s EXCEPT !.realized_pnl_ = @ + fill_quantity * price,
                    !.position_ = @ - fill_quantity]

try_sell(s, price) ==
  IF max_sell(s) = 0 THEN s
  ELSE LET fill_quantity == Min(s.order_quantity_, max_sell(s))
       IN [s EXCEPT !.realized_pnl_ = @ + fill_quantity * price,
                    !.position_ = @ - fill_quantity]

\* a settlement that also flattens the position it has marked
settle_eod_flatten(s, ob) ==
  LET last_price == last_exec_price(ob)
      settled == IF last_price # 0 /\ s.position_ # 0
                 THEN [s EXCEPT !.realized_pnl_ = @ + s.position_ * last_price,
                                !.position_ = 0]
                 ELSE s
  IN [settled EXCEPT !.day_closed_ = TRUE]

settle_eod(s, ob) ==
  LET last_price == last_exec_price(ob)
      settled == IF last_price # 0 /\ s.position_ # 0
                 THEN [s EXCEPT !.realized_pnl_ = @ + s.position_ * last_price]
                 ELSE s
  IN [settled EXCEPT !.day_closed_ = TRUE]

end_of_day(s, ob) == settle_eod(s, ob)

\* a scan that looks at the first event of the batch only
HasMarketClose_first_only(batch) ==
  /\ batch # <<>>
  /\ batch[1].type = "O" /\ batch[1].orderbook_state = MARKET_CLOSE_STATE

HasMarketClose(batch) ==
  \E i \in 1..Len(batch) :
    batch[i].type = "O" /\ batch[i].orderbook_state = MARKET_CLOSE_STATE

\* The branch on_batch takes, named after its log_debug message.  Prices are
\* far below 2^32 - PRICE_TICK, so the unsigned differences of lines 481 and
\* 486 equal PRICE_TICK exactly when the integer differences do.
on_batch_branch(s, ob, batch) ==
  LET curr_best_bid == best_bid_price(ob)
      curr_best_ask == best_ask_price(ob)
      curr_spread == curr_best_ask - curr_best_bid
      prev_spread == s.prev_ask_ - s.prev_bid_
  IN IF s.day_closed_ THEN "day_closed"
     ELSE IF batch = <<>> THEN "empty_batch"
     ELSE IF HasMarketClose(batch) THEN "market_close"
     ELSE IF ~trading_open(ob) THEN "not_open"
     ELSE IF ~has_top(ob) THEN "no_top"
     ELSE IF ~s.have_prev_ THEN "first_snapshot"
     ELSE IF ~(prev_spread = TIGHT_SPREAD /\ curr_spread = GAP_SPREAD)
          THEN "not_tight_gap"
     ELSE IF curr_best_bid = s.prev_bid_
             /\ curr_best_ask - s.prev_ask_ = PRICE_TICK THEN "vanished_ask"
     ELSE IF curr_best_ask = s.prev_ask_
             /\ s.prev_bid_ - curr_best_bid = PRICE_TICK THEN "vanished_bid"
     ELSE "ambiguous"

\* a strategy that holds its trade back when the batch also added an order
on_batch_skip_on_add(s, ob, batch) ==
  LET branch == on_batch_branch(s, ob, batch)
      added == \E i \in 1..Len(batch) : batch[i].type = "A"
  IN IF branch \in {"day_closed", "empty_batch", "not_open", "no_top"} THEN s
     ELSE IF branch = "market_close" THEN settle_eod(s, ob)
     ELSE LET traded == IF branch = "vanished_ask" /\ ~added
                        THEN try_buy(s, s.prev_ask_)
                        ELSE IF branch = "vanished_bid" /\ ~added
                        THEN try_sell(s, s.prev_bid_)
                        ELSE s
          IN [traded EXCEPT !.prev_bid_ = best_bid_price(ob),
                            !.prev_ask_ = best_ask_price(ob),
                            !.have_prev_ = TRUE]

\* a strategy that lets a closed day through to the gates below
on_batch_no_day_guard(s, ob, batch) ==
  LET open == [s EXCEPT !.day_closed_ = FALSE]
      branch == on_batch_branch(open, ob, batch)
  IN IF branch \in {"empty_batch", "not_open", "no_top"} THEN s
     ELSE IF branch = "market_close" THEN settle_eod(s, ob)
     ELSE LET traded == IF branch = "vanished_ask" THEN try_buy(s, s.prev_ask_)
                        ELSE IF branch = "vanished_bid" THEN try_sell(s, s.prev_bid_)
                        ELSE s
          IN [traded EXCEPT !.prev_bid_ = best_bid_price(ob),
                            !.prev_ask_ = best_ask_price(ob),
                            !.have_prev_ = TRUE]

\* a strategy that returns as soon as try_buy or try_sell placed no order
on_batch_return_when_blocked(s, ob, batch) ==
  LET branch == on_batch_branch(s, ob, batch)
  IN IF branch \in {"day_closed", "empty_batch", "not_open", "no_top"} THEN s
     ELSE IF branch = "market_close" THEN settle_eod(s, ob)
     ELSE IF branch = "vanished_ask" /\ ~try_buy_result(s) THEN s
     ELSE IF branch = "vanished_bid" /\ ~try_sell_result(s) THEN s
     ELSE LET traded == IF branch = "vanished_ask" THEN try_buy(s, s.prev_ask_)
                        ELSE IF branch = "vanished_bid" THEN try_sell(s, s.prev_bid_)
                        ELSE s
          IN [traded EXCEPT !.prev_bid_ = best_bid_price(ob),
                            !.prev_ask_ = best_ask_price(ob),
                            !.have_prev_ = TRUE]

\* a strategy that trades at the current top instead of the vanished price
on_batch_at_current_top(s, ob, batch) ==
  LET branch == on_batch_branch(s, ob, batch)
  IN IF branch \in {"day_closed", "empty_batch", "not_open", "no_top"} THEN s
     ELSE IF branch = "market_close" THEN settle_eod(s, ob)
     ELSE LET traded == IF branch = "vanished_ask"
                        THEN try_buy(s, best_ask_price(ob))
                        ELSE IF branch = "vanished_bid"
                        THEN try_sell(s, best_bid_price(ob))
                        ELSE s
          IN [traded EXCEPT !.prev_bid_ = best_bid_price(ob),
                            !.prev_ask_ = best_ask_price(ob),
                            !.have_prev_ = TRUE]

\* a strategy that sells at the previous bid right after it bought
on_batch_buy_then_sell(s, ob, batch) ==
  LET branch == on_batch_branch(s, ob, batch)
  IN IF branch \in {"day_closed", "empty_batch", "not_open", "no_top"} THEN s
     ELSE IF branch = "market_close" THEN settle_eod(s, ob)
     ELSE LET traded == IF branch = "vanished_ask"
                        THEN try_sell(try_buy(s, s.prev_ask_), s.prev_bid_)
                        ELSE IF branch = "vanished_bid" THEN try_sell(s, s.prev_bid_)
                        ELSE s
          IN [traded EXCEPT !.prev_bid_ = best_bid_price(ob),
                            !.prev_ask_ = best_ask_price(ob),
                            !.have_prev_ = TRUE]

on_batch(s, ob, batch) ==
  LET branch == on_batch_branch(s, ob, batch)
  IN IF branch \in {"day_closed", "empty_batch", "not_open", "no_top"} THEN s
     ELSE IF branch = "market_close" THEN settle_eod(s, ob)
     ELSE LET traded == IF branch = "vanished_ask" THEN try_buy(s, s.prev_ask_)
                        ELSE IF branch = "vanished_bid" THEN try_sell(s, s.prev_bid_)
                        ELSE s
          IN [traded EXCEPT !.prev_bid_ = best_bid_price(ob),
                            !.prev_ask_ = best_ask_price(ob),
                            !.have_prev_ = TRUE]

\* ------------------------------------------------- batching loop (main.cpp)
\* input is the part of the event stream the loop has read so far; calls is
\* the log of the on_batch invocations: the ns and batch handed over and the
\* book the strategy could read at that moment.
VARIABLES cur_ns, have_batch, ns_batch, batches_total, msgs_total, pc,
          input, calls

\* the loop's locals and the two objects, as one value
Sys ==
  [book |-> book, strat |-> strat, cur_ns |-> cur_ns,
   have_batch |-> have_batch, ns_batch |-> ns_batch,
   batches_total |-> batches_total, msgs_total |-> msgs_total,
   calls |-> calls]

flush_batch(sys, ns) ==
  IF ~sys.have_batch THEN sys
  ELSE [sys EXCEPT !.batches_total = @ + 1,
                   !.strat = on_batch(@, sys.book, sys.ns_batch),
                   !.calls = Append(@, [ns |-> ns, batch |-> sys.ns_batch,
                                        ob |-> sys.book]),
                   !.ns_batch = <<>>,
                   !.have_batch = FALSE]

\* a boundary that compares the order of the nanosec values: a batch is
\* closed only by a later nanosec
ns_boundary_later_only(sys, ev) ==
  IF ~sys.have_batch
  THEN [sys EXCEPT !.cur_ns = ev.nanosec, !.have_batch = TRUE]
  ELSE IF ev.nanosec > sys.cur_ns
  THEN [flush_batch(sys, sys.cur_ns) EXCEPT !.cur_ns = ev.nanosec,
                                            !.have_batch = TRUE]
  ELSE sys

\* lines 152-154
ns_boundary(sys, ev) ==
  IF ~sys.have_batch
  THEN [sys EXCEPT !.cur_ns = ev.nanosec, !.have_batch = TRUE]
  ELSE IF ev.nanosec # sys.cur_ns
  THEN [flush_batch(sys, sys.cur_ns) EXCEPT !.cur_ns = ev.nanosec,
                                            !.have_batch = TRUE]
  ELSE sys

\* lines 156-159
apply_and_collect(sys, ev) ==
  [sys EXCEPT !.book = apply(@, ev),
              !.ns_batch = Append(@, ev),
              !.msgs_total = @ + 1]

IsMarketClose(ev) ==
  ev.type = "O" /\ ev.orderbook_state = MARKET_CLOSE_STATE

\* a loop that applies the event to the book before it closes the batch
main_event_apply_first(sys, ev) ==
  IF ev.orderbook_id # TARGET_BOOK THEN sys
  ELSE LET applied == [sys EXCEPT !.book = apply(@, ev)]
           opened == ns_boundary(applied, ev)
           collected == [opened EXCEPT !.ns_batch = Append(@, ev),
                                       !.msgs_total = @ + 1]
       IN IF IsMarketClose(ev)
          THEN flush_batch(flush_batch(collected, collected.cur_ns),
                           collected.cur_ns)
          ELSE collected

\* one iteration of the for loop of lines 134-168
main_event(sys, ev) ==
  IF ev.orderbook_id # TARGET_BOOK THEN sys
  ELSE LET collected == apply_and_collect(ns_boundary(sys, ev), ev)
       IN IF IsMarketClose(ev)
          THEN flush_batch(flush_batch(collected, collected.cur_ns),
                           collected.cur_ns)
          ELSE collected

Commit(sys) ==
  /\ book' = sys.book
  /\ strat' = sys.strat
  /\ cur_ns' = sys.cur_ns
  /\ have_batch' = sys.have_batch
  /\ ns_batch' = sys.ns_batch
  /\ batches_total' = sys.batches_total
  /\ msgs_total' = sys.msgs_total
  /\ calls' = sys.calls

\* ------------------------------------------ simulation harness (push/flush)
\* last is what the most recent on_batch call met: the book's best bid and
\* ask at that call, i.e. at the close of that batch.
VARIABLES last

SimSys ==
  [book |-> book, strat |-> strat, batch_ns |-> cur_ns,
   have_batch |-> have_batch, ns_batch |-> ns_batch, last |-> last]

sim_flush_batch(sys, ns) ==
  IF ~sys.have_batch THEN sys
  ELSE [sys EXCEPT !.strat = on_batch(@, sys.book, sys.ns_batch),
                   !.last = [bid |-> best_bid_price(sys.book),
                             ask |-> best_ask_price(sys.book)],
                   !.ns_batch = <<>>,
                   !.have_batch = FALSE]

push(sys, ev) ==
  LET opened ==
        IF ~sys.have_batch
        THEN [sys EXCEPT !.batch_ns = ev.nanosec, !.have_batch = TRUE]
        ELSE IF ev.nanosec # sys.batch_ns
        THEN [sim_flush_batch(sys, sys.batch_ns) EXCEPT
                !.batch_ns = ev.nanosec, !.have_batch = TRUE]
        ELSE sys
  IN [opened EXCEPT !.book = apply(@, ev), !.ns_batch = Append(@, ev)]

SimCommit(sys) ==
  /\ book' = sys.book
  /\ strat' = sys.strat
  /\ cur_ns' = sys.batch_ns
  /\ have_batch' = sys.have_batch
  /\ ns_batch' = sys.ns_batch
  /\ last' = sys.last

NoCall == [bid |-> 0, ask |-> 0]

vars == <<book, strat, cur_ns, have_batch, ns_batch, batches_total,
          msgs_total, pc, input, calls, last>>

\* --------------------------------------------------- specification: the book
\* Events applied straight to an Orderbook with Orderbook::apply, as the
\* order book unit test does.  Two order ids, two prices on either side,
\* quantities 0 (a weird add), 1 and 2 (so that an execute can be partial).
BookIds == {1, 2}
BookPrices == {10, 20}
BookSides == {"B", "S"}
BookQtys == {0, 1, 2}

BookAdds ==
  {make_add(TARGET_BOOK, id, s, px, qty, 1, 1, 0) :
     id \in BookIds, s \in BookSides, px \in BookPrices, qty \in BookQtys}

BookExecs ==
  {make_exec(TARGET_BOOK, id, "U", qty, 0) : id \in BookIds, qty \in {1, 2}}

BookDeletes == {make_del(TARGET_BOOK, id, "U", 0) : id \in BookIds}

InitBook ==
  /\ book = EmptyBook
  /\ strat = Strategy(TARGET_BOOK, 100, 1000, 0)
  /\ cur_ns = 0
  /\ have_batch = FALSE
  /\ ns_batch = <<>>
  /\ batches_total = 0
  /\ msgs_total = 0
  /\ pc = "run"
  /\ input = <<>>
  /\ calls = <<>>
  /\ last = NoCall

ApplyTo(ev) ==
  /\ book' = apply(book, ev)
  /\ UNCHANGED <<strat, cur_ns, have_batch, ns_batch, batches_total,
                 msgs_total, pc, input, calls, last>>

ApplyAdd == \E ev \in BookAdds : TotalOrders(book) < MaxBookOrders /\ ApplyTo(ev)
ApplyExec == \E ev \in BookExecs : ApplyTo(ev)
ApplyDelete == \E ev \in BookDeletes : ApplyTo(ev)

NextBook == ApplyAdd \/ ApplyExec \/ ApplyDelete

SpecBook == InitBook /\ [][NextBook]_vars

\* ---------------------------------------------- specification: one price level
\* The same book fed with sell orders at one price that differ in ranking
\* key, so that a FIFO holds up to MaxFifo orders in every ranking order.
FifoIds == {1, 2, 3}
RankKeys == {<<1, 1>>, <<1, 2>>, <<2, 1>>}

FifoAdds ==
  {make_add(TARGET_BOOK, id, "S", 10, qty, k[1], k[2], 0) :
     id \in FifoIds, qty \in {1, 2}, k \in RankKeys}

FifoExecs == {make_exec(TARGET_BOOK, id, "S", 1, 0) : id \in FifoIds}

FifoDeletes == {make_del(TARGET_BOOK, id, "S", 0) : id \in FifoIds}

FifoAdd == \E ev \in FifoAdds : TotalOrders(book) < MaxFifo /\ ApplyTo(ev)
FifoExec == \E ev \in FifoExecs : ApplyTo(ev)
FifoDelete == \E ev \in FifoDeletes : ApplyTo(ev)

NextFifo == FifoAdd \/ FifoExec \/ FifoDelete

SpecFifo == InitBook /\ [][NextFifo]_vars

\* ------------------------------------------------ specification: the driver
\* The loop of main.cpp over a stream of at most MaxEvents decoded events.
\* The stream carries target events of two nanosec values (two adds and a
\* delete each, the opening state change, the end-of-day sentinel) and an
\* event of another instrument that reuses an order id of the target.
MaxEvents == 5

OTHER_BOOK == TARGET_BOOK + 1

StreamNs == {1, 2}

StreamEvents ==
  UNION {{make_add(TARGET_BOOK, 1, "B", 10, 1, 1, 1, ns),
          make_add(TARGET_BOOK, 2, "S", 20, 1, 1, 2, ns),
          make_del(TARGET_BOOK, 1, "B", ns)} : ns \in StreamNs}
  \cup {make_state(TARGET_BOOK, CONTINUOUS_STATE, 1),
        make_state(TARGET_BOOK, MARKET_CLOSE_STATE, 2),
        make_add(OTHER_BOOK, 1, "S", 10, 2, 1, 3, 3)}

Init == InitBook

\* a loop that reads on after the end-of-day sentinel
eod_reached_never(ev) == FALSE

\* lines 161-167: the sentinel of the target instrument ends the loops
eod_reached(ev) == ev.orderbook_id = TARGET_BOOK /\ IsMarketClose(ev)

\* the for loop takes the decoded event ev
DriverStep(ev) ==
  /\ pc = "run"
  /\ Len(input) < MaxEvents
  /\ input' = Append(input, ev)
  /\ Commit(main_event(Sys, ev))
  /\ pc' = IF eod_reached(ev) THEN "done" ELSE "run"
  /\ UNCHANGED last

DriverEvent == \E ev \in StreamEvents : DriverStep(ev)

\* an end of file that leaves the open batch behind
DriverEOF_no_flush ==
  /\ pc = "run"
  /\ pc' = "done"
  /\ UNCHANGED <<book, strat, cur_ns, have_batch, ns_batch, batches_total,
                 msgs_total, input, calls, last>>

\* the file is exhausted: the loops end and the final batch is flushed
DriverEOF ==
  /\ pc = "run"
  /\ Commit(flush_batch(Sys, cur_ns))
  /\ pc' = "done"
  /\ UNCHANGED <<input, last>>

Next == DriverEvent \/ DriverEOF

Spec == Init /\ [][Next]_vars

\* ------------------------------------ specification: the driver to its end
\* The same loop over a narrower stream, with the progress the program has:
\* while the loop can take a step it takes one.  Every step reads from a
\* file of finite length (next_packet consumes bytes or fails the stream),
\* so the end of file comes after at most MaxEvents events.
LiveEvents ==
  {make_add(TARGET_BOOK, 1, "B", 10, 1, 1, 1, 1),
   make_add(TARGET_BOOK, 2, "S", 20, 1, 1, 2, 2),
   make_del(TARGET_BOOK, 1, "B", 1),
   make_state(TARGET_BOOK, MARKET_CLOSE_STATE, 2),
   make_add(OTHER_BOOK, 1, "S", 10, 2, 1, 3, 3)}

LiveEvent == \E ev \in LiveEvents : DriverStep(ev)

NextLive == LiveEvent \/ DriverEOF

SpecLive == Init /\ [][NextLive]_vars /\ WF_vars(NextLive)

\* --------------------------------------- specification: the simulated session
\* The harness of the strategy simulation: events are pushed one by one and
\* the open batch is flushed at will.  Four orders can rest at four
\* price points (bids at 10 and 20, asks at 20 and 30), enough for a tight
\* book, a gap on either side and a crossed book; the strategy is built with
\* an order quantity inside and above its position limit.
MaxBatch == 2

BOOK == 123

PAUSE_STATE == "P_ARA"

SimNs == {1, 2}
SimIds == {1, 2, 3, 4}
OrderQtys == {2, 5}
MaxPositions == {3}
MinPositions == {0}

\* the side and price an order id is added with
SimPlace(id) ==
  IF id = 1 THEN <<"B", 10>>
  ELSE IF id = 2 THEN <<"B", 20>>
  ELSE IF id = 3 THEN <<"S", 20>>
  ELSE <<"S", 30>>

SimStates(ns) ==
  {make_state(BOOK, st, ns) :
     st \in {CONTINUOUS_STATE, MARKET_CLOSE_STATE, PAUSE_STATE}}

SimAdds(ns) ==
  {make_add(BOOK, id, SimPlace(id)[1], SimPlace(id)[2], 1, 1, id, ns) :
     id \in SimIds}

SimDeletes(ns) == {make_del(BOOK, id, "U", ns) : id \in SimIds}

\* orders are added under fresh ids and deleted while live; once the day is
\* closed only state changes follow
SimAdmits(ev) ==
  /\ strat.day_closed_ => ev.type = "O"
  /\ ev.type = "A" => ev.order_id \notin DOMAIN book.index_
  /\ ev.type = "D" => ev.order_id \in DOMAIN book.index_
  /\ have_batch /\ ev.nanosec = cur_ns => Len(ns_batch) < MaxBatch

InitStrat ==
  /\ book = EmptyBook
  /\ strat \in {Strategy(BOOK, q, mx, mn) :
                  q \in OrderQtys, mx \in MaxPositions, mn \in MinPositions}
  /\ cur_ns = 0
  /\ have_batch = FALSE
  /\ ns_batch = <<>>
  /\ batches_total = 0
  /\ msgs_total = 0
  /\ pc = "run"
  /\ input = <<>>
  /\ calls = <<>>
  /\ last = NoCall

SimPush ==
  \E ns \in SimNs :
    \E ev \in SimStates(ns) \cup SimAdds(ns) \cup SimDeletes(ns) :
      /\ SimAdmits(ev)
      /\ SimCommit(push(SimSys, ev))
      /\ UNCHANGED <<batches_total, msgs_total, pc, input, calls>>

SimFlush ==
  /\ have_batch
  /\ SimCommit(sim_flush_batch(SimSys, cur_ns))
  /\ UNCHANGED <<batches_total, msgs_total, pc, input, calls>>

NextStrat == SimPush \/ SimFlush

SpecStrat == InitStrat /\ [][NextStrat]_vars

\* =================================================================== claims
Levels(b) ==
  {b.bids_[p] : p \in DOMAIN b.bids_} \cup {b.asks_[p] : p \in DOMAIN b.asks_}

\* The model's own sanity: every index entry points at a node of its level
\* that carries its order id (the iterator is never dangling).
IndexResolves ==
  \A id \in DOMAIN book.index_ :
    LET h == book.index_[id]
        m == MapOf(h.side)
    IN /\ h.price \in DOMAIN book[m]
       /\ h.it \in 1..Len(book[m][h.price].fifo)
       /\ book[m][h.price].fifo[h.it].id = id

\* C1: after any sequence of applied events, adds that reuse a live order id
\* included, the number of index entries equals the sum of num_orders over
\* all price levels of both sides.
C1_IndexSizeIsOrderCount == order_count(book) = SumNumOrders(book)

\* C2: after any sequence of applied events every price level of either side
\* has aggregate = the sum of the quantities of the orders in its FIFO and
\* num_orders = the length of its FIFO.
C2_LevelTotals ==
  \A lvl \in Levels(book) :
    lvl.aggregate = SumQty(lvl.fifo) /\ lvl.num_orders = Len(lvl.fifo)

\* a level that holds two orders, one of them cut to quantity 1 by a partial
\* execute (last_exec_price is the level's price), the other of quantity 2
C2_Witness ==
  \E p \in DOMAIN book.asks_ :
    /\ book.last_exec_price_ = p
    /\ Len(book.asks_[p].fifo) = 2
    /\ book.asks_[p].fifo[1].quantity = 1
    /\ book.asks_[p].fifo[2].quantity = 2
    /\ book.asks_[p].aggregate = 3

\* C3: after every applied event every price level of either side has
\* num_orders >= 1 and a non-empty FIFO: a level whose last order was executed
\* or deleted is gone from its side map.
C3_NoEmptyLevel ==
  \A lvl \in Levels(book) : lvl.num_orders >= 1 /\ lvl.fifo # <<>>

\* an execute took the last order of the bid level at 20, which is gone,
\* while the bid level at 10 and an ask level stay
C3_Witness ==
  /\ book.last_exec_price_ = 20
  /\ DOMAIN book.bids_ = {10}
  /\ DOMAIN book.asks_ # {}
  /\ DOMAIN book.index_ = {1}

KeyLeq(a, b) ==
  \/ a.ranking_time < b.ranking_time
  \/ a.ranking_time = b.ranking_time /\ a.ranking_seq_num <= b.ranking_seq_num

\* C4: after any sequence of adds, partial executes, full executes and
\* deletes, the key (ranking_time, ranking_seq) is non-decreasing from front
\* to back in every price level's FIFO.
C4_FifoSorted ==
  \A lvl \in Levels(book) :
    \A i \in 1..(Len(lvl.fifo) - 1) : KeyLeq(lvl.fifo[i], lvl.fifo[i + 1])

\* three orders of three different keys in one FIFO, the one with the
\* smallest key added last (its id is the highest) and standing in front,
\* after an execute
C4_Witness ==
  \E p \in DOMAIN book.asks_ :
    LET f == book.asks_[p].fifo
    IN /\ Len(f) = 3
       /\ <<f[1].ranking_time, f[1].ranking_seq_num>> = <<1, 1>>
       /\ <<f[2].ranking_time, f[2].ranking_seq_num>> = <<1, 2>>
       /\ <<f[3].ranking_time, f[3].ranking_seq_num>> = <<2, 1>>
       /\ f[2].quantity = 1
       /\ book.last_exec_price_ = p

\* ---- the driver's batches
RECURSIVE ApplyAll(_, _)
ApplyAll(b, evs) ==
  IF evs = <<>> THEN b ELSE ApplyAll(apply(b, Head(evs)), Tail(evs))

RECURSIVE TargetOnly(_)
TargetOnly(evs) ==
  IF evs = <<>> THEN <<>>
  ELSE IF Head(evs).orderbook_id = TARGET_BOOK
       THEN <<Head(evs)>> \o TargetOnly(Tail(evs))
       ELSE TargetOnly(Tail(evs))

\* the events of the batches handed over by the first k calls, in order
RECURSIVE HandedOver(_)
HandedOver(k) ==
  IF k = 0 THEN <<>> ELSE HandedOver(k - 1) \o calls[k].batch

\* C5: when on_batch is invoked for a batch, the book it reads is exactly the
\* book after the last event of that batch: the events of this and all earlier
\* batches applied in arrival order, and no event of a later batch.  The
\* batches, put end to end and followed by the open batch, are the target
\* events of the stream read so far.
C5_BookAtBatchClose ==
  /\ \A k \in 1..Len(calls) :
       calls[k].ob = ApplyAll(EmptyBook, HandedOver(k))
  /\ HandedOver(Len(calls)) \o ns_batch = TargetOnly(input)

\* a call for a second batch whose book differs from the book of the first
\* call, with an event of a third batch already read
C5_Witness ==
  /\ Len(calls) >= 2
  /\ calls[1].ob # calls[2].ob
  /\ calls[2].ob # book
  /\ DOMAIN calls[2].ob.index_ # {}
  /\ have_batch

\* C6: every batch handed to on_batch is non-empty, holds only events of the
\* target instrument, all of the nanosec given as the ns argument; a batch
\* ends exactly where the next target event's nanosec differs, so consecutive
\* batches (and the open batch) never share a nanosec, whatever the order of
\* the values, and events of other instruments split nothing.
C6_BatchShape ==
  /\ \A k \in 1..Len(calls) :
       /\ calls[k].batch # <<>>
       /\ \A i \in 1..Len(calls[k].batch) :
            /\ calls[k].batch[i].orderbook_id = TARGET_BOOK
            /\ calls[k].batch[i].nanosec = calls[k].ns
  /\ \A k \in 1..(Len(calls) - 1) : calls[k].ns # calls[k + 1].ns
  /\ have_batch =>
       /\ ns_batch # <<>>
       /\ \A i \in 1..Len(ns_batch) : ns_batch[i].nanosec = cur_ns
       /\ calls # <<>> => calls[Len(calls)].ns # cur_ns
  /\ HandedOver(Len(calls)) \o ns_batch = TargetOnly(input)
  /\ Len(calls) = batches_total

\* three batches of nanosec 1, 2, 1, the first of two events that had an
\* event of another instrument and nanosec between them
C6_Witness ==
  /\ Len(calls) = 3
  /\ calls[1].ns = 1 /\ calls[2].ns = 2 /\ calls[3].ns = 1
  /\ Len(calls[1].batch) = 2
  /\ Len(input) = 5
  /\ input[2].orderbook_id = OTHER_BOOK

\* ---- the strategy's calls
\* a step of the harness in which on_batch runs: the open batch is closed, by
\* a flush or by a push of another nanosec.  The call reads the strategy, the
\* book and the batch of the step's first state; last is the call before it.
CallStep == have_batch /\ (~have_batch' \/ cur_ns' # cur_ns)

BuyAttemptedAt(price) ==
  /\ strat'.position_ >= strat.position_
  /\ strat.position_ < strat.max_position_
       => strat'.position_ > strat.position_
  /\ strat'.realized_pnl_ =
       strat.realized_pnl_ - (strat'.position_ - strat.position_) * price

SellAttemptedAt(price) ==
  /\ strat'.position_ <= strat.position_
  /\ strat.position_ > strat.min_position_
       => strat'.position_ < strat.position_
  /\ strat'.realized_pnl_ =
       strat.realized_pnl_ + (strat.position_ - strat'.position_) * price

NoTradeAttempted ==
  /\ strat'.position_ = strat.position_
  /\ strat'.realized_pnl_ = strat.realized_pnl_

SpreadsTightThenGap ==
  /\ strat.prev_ask_ - strat.prev_bid_ = PRICE_TICK
  /\ best_ask_price(book) - best_bid_price(book) = 2 * PRICE_TICK

BuyShape ==
  /\ SpreadsTightThenGap
  /\ best_bid_price(book) = strat.prev_bid_
  /\ best_ask_price(book) - strat.prev_ask_ = PRICE_TICK

SellShape ==
  /\ SpreadsTightThenGap
  /\ best_ask_price(book) = strat.prev_ask_
  /\ strat.prev_bid_ - best_bid_price(book) = PRICE_TICK

\* C7: in an on_batch call with the day not closed, no end-of-day sentinel in
\* the batch, the book trading-open with a top and a previous snapshot
\* recorded, a BUY is attempted at prev_ask exactly when the previous spread
\* was one tick, the current spread is two ticks, the bid is unchanged and the
\* ask rose by one tick; a SELL is attempted at prev_bid exactly when the same
\* spreads hold, the ask is unchanged and the bid fell by one tick; in every
\* other shape nothing is traded.
C7_TradeIffOneTickGap ==
  [][(/\ CallStep
      /\ ~strat.day_closed_
      /\ ~HasMarketClose(ns_batch)
      /\ trading_open(book) /\ has_top(book)
      /\ strat.have_prev_)
     => /\ BuyShape => BuyAttemptedAt(strat.prev_ask_)
        /\ SellShape => SellAttemptedAt(strat.prev_bid_)
        /\ ~BuyShape /\ ~SellShape => NoTradeAttempted
        /\ ~(BuyShape /\ SellShape)]_vars

\* the strategy of order quantity 2 bought 2, then 1 (position limit 3), all
\* at 20, and has just sold 2 at the vanished bid of 20
C7_Witness ==
  /\ last.bid = 10 /\ last.ask = 30
  /\ strat.order_quantity_ = 2
  /\ strat.position_ = 1
  /\ strat.realized_pnl_ = -20
  /\ strat.prev_bid_ = 10 /\ strat.prev_ask_ = 30

\* C8: in every reachable state of a strategy built with
\* min_pos <= 0 <= max_pos, min_pos <= position <= max_pos, after every fill
\* of try_buy and try_sell and for any order quantity.
C8_PositionWithinLimits ==
  (strat.min_position_ <= 0 /\ 0 <= strat.max_position_)
    => /\ strat.min_position_ <= strat.position_
       /\ strat.position_ <= strat.max_position_

\* a buy of order quantity 5 was cut to the headroom of 3 and paid 3 * 20
C8_Witness ==
  /\ strat.order_quantity_ = 5
  /\ strat.position_ = strat.max_position_
  /\ strat.realized_pnl_ = -60
  /\ strat.prev_bid_ = 10 /\ strat.prev_ask_ = 30
  /\ last.bid = 10 /\ last.ask = 30

\* C9: an on_batch call with the day not closed (and no end-of-day sentinel
\* in the batch) and the book not trading-open, or without a top, or with no
\* previous snapshot recorded, records the current best bid and ask into
\* prev_bid/prev_ask, sets have_prev and trades nothing.
C9_SkippedBatchRecordsTop ==
  [][(/\ CallStep
      /\ ~strat.day_closed_
      /\ ~HasMarketClose(ns_batch)
      /\ ~trading_open(book) \/ ~has_top(book) \/ ~strat.have_prev_)
     => strat' = [strat EXCEPT !.prev_bid_ = best_bid_price(book),
                               !.prev_ask_ = best_ask_price(book),
                               !.have_prev_ = TRUE]]_vars

\* C10: whenever a call trades, the prev_bid/prev_ask it compares against are
\* the book's best bid and ask at the close of the batch just before.
C10_PrevIsPrecedingClose ==
  [][(CallStep /\ strat'.position_ # strat.position_)
     => /\ strat.prev_bid_ = last.bid
        /\ strat.prev_ask_ = last.ask]_vars

\* ------------------------------------------ specification: one strategy call
\* One call of a Strategy method on a strategy and a book the session can be
\* in: the strategy holds 0..3 units bought at 20 (0 or 3 with order quantity
\* 5) and a snapshot of a tight or gapped book; the book holds any of the four orders of the
\* simulated session, is open or not, and has or has not seen an execute at
\* 30.  on_batch is called with a batch of at most MaxCallBatch events the
\* book has just absorbed; try_buy, try_sell and end_of_day are called
\* directly, end_of_day up to twice.
MaxCallBatch == 2

CallQtys == {2, 5}
CallPositions == {0, 1, 3}
CallSnapshots == {<<10, 20>>, <<20, 30>>, <<10, 30>>}
CallPrices == {20, 30}

\* a strategy of order quantity 5 holds 0 or 3 units, never 1; a fresh
\* strategy may have its lower limit above its position
CallStrategies ==
  {st \in {[Strategy(BOOK, q, 3, 0) EXCEPT
              !.position_ = pos, !.realized_pnl_ = -20 * pos,
              !.prev_bid_ = snap[1], !.prev_ask_ = snap[2],
              !.have_prev_ = TRUE, !.day_closed_ = closed] :
             q \in CallQtys, pos \in CallPositions, snap \in CallSnapshots,
             closed \in BOOLEAN} :
     st.order_quantity_ = 5 => st.position_ # 1}
  \cup {Strategy(BOOK, q, 3, mn) : q \in CallQtys, mn \in {0, 2}}

\* the events that build a book: open or not, some of the four orders, and
\* possibly a fifth order that traded at 30
CallBookEvents(open, ids, traded) ==
  (IF open THEN <<make_state(BOOK, CONTINUOUS_STATE, 1)>> ELSE <<>>)
  \o (IF 1 \in ids THEN <<make_add(BOOK, 1, "B", 10, 1, 1, 1, 1)>> ELSE <<>>)
  \o (IF 2 \in ids THEN <<make_add(BOOK, 2, "B", 20, 1, 1, 2, 1)>> ELSE <<>>)
  \o (IF 3 \in ids THEN <<make_add(BOOK, 3, "S", 20, 1, 1, 3, 1)>> ELSE <<>>)
  \o (IF 4 \in ids THEN <<make_add(BOOK, 4, "S", 30, 1, 1, 4, 1)>> ELSE <<>>)
  \o (IF traded THEN <<make_add(BOOK, 5, "S", 30, 1, 1, 5, 1),
                       make_exec(BOOK, 5, "S", 1, 1)>> ELSE <<>>)

RECURSIVE BuildBook(_, _)
BuildBook(b, evs) ==
  IF evs = <<>> THEN b ELSE BuildBook(apply(b, Head(evs)), Tail(evs))

CallBooks ==
  {BuildBook(EmptyBook, CallBookEvents(open, ids, traded)) :
     open \in BOOLEAN, ids \in SUBSET SimIds, traded \in BOOLEAN}

CallEvents == SimStates(1) \cup SimAdds(1) \cup SimDeletes(1)

\* the batches of at most n events that add fresh ids and delete live ones
RECURSIVE CallBatches(_, _)
CallBatches(b, n) ==
  IF n = 0 THEN {<<>>}
  ELSE {<<>>} \cup
       UNION {{<<ev>> \o rest : rest \in CallBatches(apply(b, ev), n - 1)} :
                ev \in {e \in CallEvents :
                          /\ e.type = "A" => e.order_id \notin DOMAIN b.index_
                          /\ e.type = "D" => e.order_id \in DOMAIN b.index_}}

InitCall ==
  /\ book \in CallBooks
  /\ strat \in CallStrategies
  /\ cur_ns = 0
  /\ have_batch = FALSE
  /\ ns_batch = <<>>
  /\ batches_total = 0
  /\ msgs_total = 0
  /\ pc = "ready"
  /\ input = <<>>
  /\ calls = <<>>
  /\ last = NoCall

CallFrame == UNCHANGED <<cur_ns, have_batch, batches_total, msgs_total,
                         input, last>>

\* strat.on_batch(ns, ob, batch) once ob has absorbed the batch; calls keeps
\* the strategy and the book from before
CallOnBatch ==
  /\ pc = "ready"
  /\ \E batch \in CallBatches(book, MaxCallBatch) :
       /\ book' = BuildBook(book, batch)
       /\ ns_batch' = batch
       /\ strat' = on_batch(strat, book', batch)
       /\ calls' = <<[op |-> "on_batch", strat |-> strat, ob |-> book]>>
       /\ pc' = "returned"
       /\ CallFrame

CallTryBuy ==
  /\ pc = "ready"
  /\ \E price \in CallPrices :
       /\ strat' = try_buy(strat, price)
       /\ calls' = <<[op |-> "try_buy", strat |-> strat, price |-> price]>>
       /\ pc' = "returned"
       /\ UNCHANGED <<book, ns_batch>>
       /\ CallFrame

CallTrySell ==
  /\ pc = "ready"
  /\ \E price \in CallPrices :
       /\ strat' = try_sell(strat, price)
       /\ calls' = <<[op |-> "try_sell", strat |-> strat, price |-> price]>>
       /\ pc' = "returned"
       /\ UNCHANGED <<book, ns_batch>>
       /\ CallFrame

\* strat.end_of_day(ob), a first and a second time
CallEndOfDay ==
  /\ pc \in {"ready", "settled"}
  /\ strat' = end_of_day(strat, book)
  /\ calls' = Append(calls, [op |-> "end_of_day", strat |-> strat])
  /\ pc' = IF pc = "ready" THEN "settled" ELSE "settled_twice"
  /\ UNCHANGED <<book, ns_batch>>
  /\ CallFrame

NextCall == CallOnBatch \/ CallTryBuy \/ CallTrySell \/ CallEndOfDay

SpecCall == InitCall /\ [][NextCall]_vars

\* ---- settlement
\* a step in which end_of_day (settle_eod) runs on strat and book
SettleStep == pc \in {"ready", "settled"} /\ pc' \in {"settled", "settled_twice"}

\* C11: settlement is idempotent: end_of_day run a second time on the same
\* book leaves realized_pnl as the first run left it, for any position and
\* any last_exec_price.
C11_SettlementIdempotent ==
  [][(pc = "settled" /\ pc' = "settled_twice")
     => strat'.realized_pnl_ = strat.realized_pnl_]_vars

\* C12: settle_eod adds position * last_exec_price to realized_pnl exactly
\* when position # 0 and last_exec_price # 0 and leaves it unchanged
\* otherwise, always sets day_closed, and changes neither the position nor
\* anything else.
C12_SettleEffect ==
  [][SettleStep
     => strat' = [strat EXCEPT
                    !.realized_pnl_ =
                      IF strat.position_ # 0 /\ last_exec_price(book) # 0
                      THEN @ + strat.position_ * last_exec_price(book)
                      ELSE @,
                    !.day_closed_ = TRUE]]_vars

\* three units bought at 20 were marked at the last trade price 30
C12_Witness ==
  /\ pc = "settled"
  /\ calls[1].strat.position_ = 3
  /\ calls[1].strat.realized_pnl_ = -60
  /\ ~calls[1].strat.day_closed_
  /\ last_exec_price(book) = 30
  /\ strat.realized_pnl_ = 30
  /\ strat.position_ = 3
  /\ strat.day_closed_

\* ---- single calls
\* a step in which on_batch runs: it reads strat, the book after the batch
\* (book') and the batch (ns_batch')
OnBatchStep == pc = "ready" /\ pc' = "returned" /\ calls'[1].op = "on_batch"

TryBuyStep == pc = "ready" /\ pc' = "returned" /\ calls'[1].op = "try_buy"

TrySellStep == pc = "ready" /\ pc' = "returned" /\ calls'[1].op = "try_sell"

\* C13: once day_closed is true an on_batch call changes nothing: position,
\* realized_pnl, prev_bid, prev_ask and have_prev stay, whatever the book and
\* the batch hold; nothing is traded and nothing is settled again.
C13_ClosedDayNoOp ==
  [][(OnBatchStep /\ strat.day_closed_) => strat' = strat]_vars

\* a closed strategy with a tight snapshot was handed a batch that deletes
\* the best ask and then carries the sentinel, on a book that traded at 30
C13_Witness ==
  /\ pc = "returned"
  /\ calls[1].op = "on_batch"
  /\ calls[1].strat.day_closed_
  /\ calls[1].strat.position_ = 1
  /\ calls[1].strat.prev_bid_ = 10 /\ calls[1].strat.prev_ask_ = 20
  /\ Len(ns_batch) = 2
  /\ ns_batch[1].type = "D"
  /\ IsMarketClose(ns_batch[2])
  /\ trading_open(calls[1].ob) /\ last_exec_price(book) = 30
  /\ best_bid_price(book) = 10 /\ best_ask_price(book) = 30

\* C14: an on_batch call with the day not closed and the end-of-day sentinel
\* anywhere in the batch runs the settlement and returns: the position and
\* prev_bid/prev_ask/have_prev are unchanged and no trade is made, even when
\* the book after the batch shows a tight-to-gap move.
C14_SentinelSettlesOnly ==
  [][(/\ OnBatchStep
      /\ ~strat.day_closed_
      /\ \E i \in 1..Len(ns_batch') :
           /\ ns_batch'[i].type = "O"
           /\ ns_batch'[i].orderbook_state = "P_MARJ_YAYIN_KAPANIS")
     => strat' = [strat EXCEPT
                    !.realized_pnl_ =
                      IF strat.position_ # 0 /\ last_exec_price(book') # 0
                      THEN @ + strat.position_ * last_exec_price(book')
                      ELSE @,
                    !.day_closed_ = TRUE]]_vars

\* the batch deleted the best ask (tight 10/20 became gap 10/30) and then
\* carried the sentinel: one unit was marked at 30 and nothing was bought
C14_Witness ==
  /\ pc = "returned"
  /\ calls[1].op = "on_batch"
  /\ ~calls[1].strat.day_closed_
  /\ calls[1].strat.position_ = 1
  /\ calls[1].strat.prev_bid_ = 10 /\ calls[1].strat.prev_ask_ = 20
  /\ Len(ns_batch) = 2
  /\ ns_batch[1].type = "D"
  /\ IsMarketClose(ns_batch[2])
  /\ trading_open(calls[1].ob)
  /\ best_bid_price(book) = 10 /\ best_ask_price(book) = 30
  /\ strat.position_ = 1
  /\ strat.realized_pnl_ = 10
  /\ strat.prev_ask_ = 20
  /\ strat.day_closed_

Max0(x) == IF x > 0 THEN x ELSE 0

TightThenGapOf(s, ob) ==
  /\ s.prev_ask_ - s.prev_bid_ = PRICE_TICK
  /\ best_ask_price(ob) - best_bid_price(ob) = 2 * PRICE_TICK

BuyShapeOf(s, ob) ==
  /\ TightThenGapOf(s, ob)
  /\ best_bid_price(ob) = s.prev_bid_
  /\ best_ask_price(ob) - s.prev_ask_ = PRICE_TICK

SellShapeOf(s, ob) ==
  /\ TightThenGapOf(s, ob)
  /\ best_ask_price(ob) = s.prev_ask_
  /\ s.prev_bid_ - best_bid_price(ob) = PRICE_TICK

\* a trade that the position limit blocks: the buy shape at the upper limit
\* or the sell shape at the lower limit
BlockedOf(s, ob) ==
  /\ s.have_prev_
  /\ \/ BuyShapeOf(s, ob) /\ s.position_ >= s.max_position_
     \/ SellShapeOf(s, ob) /\ s.position_ <= s.min_position_

\* C19: an on_batch call that passes the early exits (day not closed, no
\* sentinel in the batch, book trading-open with a top) returns with
\* prev_bid/prev_ask equal to the current best bid/ask and have_prev true,
\* whether it traded, matched no pattern or was blocked by a position limit;
\* a blocked trade leaves position and realized_pnl unchanged.
C19_SnapshotAlwaysUpdated ==
  [][(/\ OnBatchStep
      /\ ~strat.day_closed_
      /\ ~\E i \in 1..Len(ns_batch') :
            /\ ns_batch'[i].type = "O"
            /\ ns_batch'[i].orderbook_state = "P_MARJ_YAYIN_KAPANIS"
      /\ ns_batch' # <<>>
      /\ trading_open(book') /\ has_top(book'))
     => /\ strat'.prev_bid_ = best_bid_price(book')
        /\ strat'.prev_ask_ = best_ask_price(book')
        /\ strat'.have_prev_
        /\ BlockedOf(strat, book')
             => /\ strat'.position_ = strat.position_
                /\ strat'.realized_pnl_ = strat.realized_pnl_]_vars

\* a buy at the upper limit of 3: the best ask 20 vanished, nothing was
\* bought and the snapshot moved on to 10/30
C19_Witness ==
  /\ pc = "returned"
  /\ calls[1].op = "on_batch"
  /\ ~calls[1].strat.day_closed_
  /\ calls[1].strat.position_ = 3
  /\ calls[1].strat.prev_bid_ = 10 /\ calls[1].strat.prev_ask_ = 20
  /\ trading_open(book)
  /\ best_bid_price(book) = 10 /\ best_ask_price(book) = 30
  /\ strat.position_ = 3
  /\ strat.realized_pnl_ = -60
  /\ strat.prev_bid_ = 10 /\ strat.prev_ask_ = 30

\* ---- the driver's end
IsSentinel(ev) ==
  /\ ev.orderbook_id = TARGET_BOOK
  /\ ev.type = "O"
  /\ ev.orderbook_state = "P_MARJ_YAYIN_KAPANIS"

\* C15: when the driver applies the end-of-day sentinel of the target
\* instrument it flushes the open batch, so that the strategy runs exactly
\* once on the batch that holds the sentinel, and terminates: the sentinel is
\* the last event read, and nothing after it reaches the book or the strategy.
C15_SentinelEndsRun ==
  \A i \in 1..Len(input) :
    IsSentinel(input[i]) =>
      /\ i = Len(input)
      /\ pc = "done"
      /\ ~have_batch /\ ns_batch = <<>>
      /\ calls # <<>>
      /\ LET final == calls[Len(calls)]
         IN /\ final.batch[Len(final.batch)] = input[i]
            /\ final.ob = book
            /\ book = ApplyAll(EmptyBook, TargetOnly(input))
      /\ Cardinality({k \in 1..Len(calls) :
                        \E j \in 1..Len(calls[k].batch) :
                          IsSentinel(calls[k].batch[j])}) = 1
      /\ batches_total = Len(calls)
      /\ strat.day_closed_

\* the sentinel came third, in a batch of two events after a batch of one;
\* the run is over although the stream could have held two more events
C15_Witness ==
  /\ Len(input) = 3
  /\ IsSentinel(input[3])
  /\ pc = "done"
  /\ Len(calls) = 2
  /\ Len(calls[2].batch) = 2
  /\ DOMAIN book.index_ # {}

\* C16: on a finite stream the loop terminates, and when it has terminated no
\* batch is pending: the batches handed to on_batch, end to end, are the
\* target events applied to the book, each delivered once; a stream without
\* events ends with zero events, zero batches, position 0 and P&L 0.
C16_TerminatesFlushed ==
  /\ <>(pc = "done")
  /\ [](pc = "done" =>
          /\ ~have_batch /\ ns_batch = <<>>
          /\ HandedOver(Len(calls)) = TargetOnly(input)
          /\ book = ApplyAll(EmptyBook, TargetOnly(input))
          /\ msgs_total = Len(TargetOnly(input))
          /\ batches_total = Len(calls)
          /\ input = <<>> =>
               /\ msgs_total = 0 /\ batches_total = 0
               /\ strat.position_ = 0 /\ strat.realized_pnl_ = 0)

\* the file ended after three target events of nanosec 1, 2, 1 and no
\* sentinel: the third batch was flushed at the end of file
C16_Witness ==
  /\ pc = "done"
  /\ Len(input) = 3
  /\ \A i \in 1..3 : input[i].orderbook_id = TARGET_BOOK /\ ~IsSentinel(input[i])
  /\ Len(calls) = 3
  /\ ~have_batch
  /\ msgs_total = 3

\* ---- what a call's outcome depends on
\* the smallest book with the trading state and the best bid and ask of ob:
\* one order on each side that has a best price
SameTopBook(ob) ==
  LET bid == best_bid_price(ob)
      ask == best_ask_price(ob)
      state == IF trading_open(ob) THEN CONTINUOUS_STATE ELSE PAUSE_STATE
      b0 == handle_state(EmptyBook, make_state(BOOK, state, 1))
      b1 == IF bid = 0 THEN b0
            ELSE handle_add(b0, make_add(BOOK, 1, "B", bid, 1, 1, 1, 1))
  IN IF ask = 0 THEN b1
     ELSE handle_add(b1, make_add(BOOK, 2, "S", ask, 1, 1, 2, 1))

HoldsSentinel(batch) ==
  \E i \in 1..Len(batch) :
    batch[i].type = "O" /\ batch[i].orderbook_state = "P_MARJ_YAYIN_KAPANIS"

\* a batch of one event that holds the sentinel exactly when batch does
OneEventBatch(batch, ob) ==
  IF HoldsSentinel(batch) THEN <<make_state(BOOK, MARKET_CLOSE_STATE, 2)>>
  ELSE <<make_state(BOOK, IF trading_open(ob) THEN CONTINUOUS_STATE
                          ELSE PAUSE_STATE, 2)>>

\* what a call decided: the strategy it left, less the realized P&L when a
\* settlement (which reads last_exec_price) ran
Decision(s, settled) ==
  [s EXCEPT !.realized_pnl_ = IF settled THEN 0 ELSE @]

\* C17: the decision of on_batch depends only on the strategy, on the book
\* after the batch through trading_open, has_top and the best bid and ask,
\* and on whether the batch holds the sentinel: every non-empty batch decides
\* as a one-event batch on the smallest book with the same top does, so two
\* batches that leave the same top decide alike whatever their events and
\* their order.  A batch that leaves the top where the snapshot has it trades
\* nothing.
C17_DecisionReadsTopOnly ==
  [][(OnBatchStep /\ ns_batch' # <<>>)
     => \A small \in {SameTopBook(book')} :
        \A sentinel \in {HoldsSentinel(ns_batch')} :
          /\ trading_open(small) = trading_open(book')
          /\ has_top(small) = has_top(book')
          /\ best_bid_price(small) = best_bid_price(book')
          /\ best_ask_price(small) = best_ask_price(book')
          /\ Decision(strat', sentinel) =
               Decision(on_batch(strat, small,
                                 OneEventBatch(ns_batch', book')), sentinel)
          /\ (/\ best_bid_price(small) = strat.prev_bid_
              /\ best_ask_price(small) = strat.prev_ask_
              /\ ~sentinel)
               => /\ strat'.position_ = strat.position_
                  /\ strat'.realized_pnl_ = strat.realized_pnl_]_vars

\* the best ask at 20 was deleted and added back within the batch: the top
\* is the snapshot's 10/20 again and the strategy, free to buy, did not
C17_Witness ==
  /\ pc = "returned"
  /\ calls[1].op = "on_batch"
  /\ ~calls[1].strat.day_closed_
  /\ calls[1].strat.position_ = 1
  /\ calls[1].strat.prev_bid_ = 10 /\ calls[1].strat.prev_ask_ = 20
  /\ Len(ns_batch) = 2
  /\ ns_batch[1].type = "D" /\ ns_batch[1].order_id = 3
  /\ ns_batch[2].type = "A" /\ ns_batch[2].order_id = 3
  /\ trading_open(book)
  /\ best_bid_price(book) = 10 /\ best_ask_price(book) = 20
  /\ strat.position_ = 1
  /\ strat.realized_pnl_ = -20

\* ------------------------------------------ specification: one execute
\* A book that has absorbed up to MaxExecAdds adds (quantity 0 and reused
\* ids included) gets one ExecuteOrder; calls keeps the event and the book
\* from before.  The executed quantities are 0, 1, 2 and the first one above
\* MAX_SUSPICIOUS_QUANTITY.
MaxExecAdds == 2

RECURSIVE AddSequences(_)
AddSequences(n) ==
  IF n = 0 THEN {<<>>}
  ELSE {<<>>} \cup {<<ev>> \o rest : ev \in BookAdds, rest \in AddSequences(n - 1)}

ExecBooks == {BuildBook(EmptyBook, adds) : adds \in AddSequences(MaxExecAdds)}

ExecEvents ==
  {make_exec(TARGET_BOOK, id, "U", qty, 0) :
     id \in BookIds, qty \in {0, 1, 2, MAX_SUSPICIOUS_QUANTITY + 1}}

InitExec ==
  /\ book \in ExecBooks
  /\ strat = Strategy(TARGET_BOOK, 100, 1000, 0)
  /\ cur_ns = 0
  /\ have_batch = FALSE
  /\ ns_batch = <<>>
  /\ batches_total = 0
  /\ msgs_total = 0
  /\ pc = "ready"
  /\ input = <<>>
  /\ calls = <<>>
  /\ last = NoCall

ExecOrder ==
  /\ pc = "ready"
  /\ \E ev \in ExecEvents :
       /\ book' = apply(book, ev)
       /\ calls' = <<[op |-> "apply", ev |-> ev, ob |-> book]>>
  /\ pc' = "returned"
  /\ UNCHANGED <<strat, ns_batch>>
  /\ CallFrame

NextExec == ExecOrder

SpecExec == InitExec /\ [][NextExec]_vars

\* ---- a full execute
\* the step applies an ExecuteOrder for a live id whose quantity covers what
\* remains of the order
CoveringExecStep ==
  /\ pc = "ready" /\ pc' = "returned"
  /\ calls'[1].ev.order_id \in DOMAIN book.index_
  /\ LET handle == book.index_[calls'[1].ev.order_id]
         level == book[MapOf(handle.side)][handle.price]
     IN calls'[1].ev.quantity >= level.fifo[handle.it].quantity

\* the order behind the id has left its FIFO and the index, its level lost
\* the order's remaining quantity and one order, or is gone if that order was
\* its last
RemovedEntirely ==
  LET id == calls'[1].ev.order_id
      handle == book.index_[id]
      m == MapOf(handle.side)
      level == book[m][handle.price]
      remaining == level.fifo[handle.it].quantity
  IN /\ id \notin DOMAIN book'.index_
     /\ order_count(book') = order_count(book) - 1
     /\ IF Len(level.fifo) = 1
        THEN handle.price \notin DOMAIN book'[m]
        ELSE /\ handle.price \in DOMAIN book'[m]
             /\ book'[m][handle.price].fifo = RemoveAt(level.fifo, handle.it)
             /\ book'[m][handle.price].aggregate = level.aggregate - remaining
             /\ book'[m][handle.price].num_orders = level.num_orders - 1

\* C20 as stated: an ExecuteOrder for a live id whose quantity is equal to or
\* greater than the order's remaining quantity removes the order entirely.
C20_CoveringExecuteRemoves ==
  [][CoveringExecStep => RemovedEntirely]_vars

\* C20: an ExecuteOrder for a live id whose quantity is at least 1, at most
\* MAX_SUSPICIOUS_QUANTITY, and equal to or greater than the order's
\* remaining quantity removes the order entirely: it leaves its level's FIFO
\* and the index, the level aggregate drops by the remaining quantity,
\* order_count drops by one, and the level is erased if it becomes empty.
C20_PlausibleCoveringExecuteRemoves ==
  [][(/\ CoveringExecStep
      /\ calls'[1].ev.quantity >= 1
      /\ calls'[1].ev.quantity <= MAX_SUSPICIOUS_QUANTITY) => RemovedEntirely]_vars

\* an execute of 2 met order 1 with 1 remaining, alone at its price, while
\* order 2 rests elsewhere: the level is gone and order 2 untouched
C20_Witness ==
  /\ pc = "returned"
  /\ calls[1].op = "apply"
  /\ calls[1].ev.order_id = 1 /\ calls[1].ev.quantity = 2
  /\ DOMAIN calls[1].ob.index_ = {1, 2}
  /\ calls[1].ob.index_[1].side = "S" /\ calls[1].ob.index_[1].price = 10
  /\ calls[1].ob.asks_[10].aggregate = 1
  /\ Len(calls[1].ob.asks_[10].fifo) = 1
  /\ DOMAIN book.index_ = {2}
  /\ 10 \notin DOMAIN book.asks_
  /\ book.last_exec_price_ = 10

\* -------------------------------------------- specification: one event
\* A book that has absorbed up to MaxApplyAdds adds (quantity 0 and reused
\* ids included), and in one variant has opened and traded an order at 30,
\* gets one event of any kind; calls keeps the event and the book from
\* before.  Order id 3 is never added: an execute or delete of it is unknown.
MaxApplyAdds == 2

ApplyIds == BookIds \cup {3}

TradedAt30 ==
  <<make_state(TARGET_BOOK, CONTINUOUS_STATE, 0),
    make_add(TARGET_BOOK, 9, "S", 30, 1, 1, 1, 0),
    make_exec(TARGET_BOOK, 9, "S", 1, 0)>>

ApplyBooks ==
  {BuildBook(EmptyBook, adds \o tail) :
     adds \in AddSequences(MaxApplyAdds), tail \in {<<>>, TradedAt30}}

ApplyExecs ==
  {make_exec(TARGET_BOOK, id, "U", qty, 0) :
     id \in ApplyIds, qty \in {0, 1, 2, MAX_SUSPICIOUS_QUANTITY + 1}}
  \cup {[make_exec(TARGET_BOOK, id, "U", qty, 0) EXCEPT !.price = 40] :
          id \in ApplyIds, qty \in {0, 1}}

ApplyDeletes == {make_del(TARGET_BOOK, id, "U", 0) : id \in ApplyIds}

ApplyStates ==
  {make_state(TARGET_BOOK, state, 0) :
     state \in {"P_SUREKLI_ISLEM", "P_SUREKLI_ISLEM ", "P_ARA",
                "P_MARJ_YAYIN_KAPANIS", ""}}

ApplyEvents == BookAdds \cup ApplyExecs \cup ApplyDeletes \cup ApplyStates

InitApply ==
  /\ book \in ApplyBooks
  /\ strat = Strategy(TARGET_BOOK, 100, 1000, 0)
  /\ cur_ns = 0
  /\ have_batch = FALSE
  /\ ns_batch = <<>>
  /\ batches_total = 0
  /\ msgs_total = 0
  /\ pc = "ready"
  /\ input = <<>>
  /\ calls = <<>>
  /\ last = NoCall

ApplyEvent ==
  /\ pc = "ready"
  /\ \E ev \in ApplyEvents :
       /\ book' = apply(book, ev)
       /\ calls' = <<[op |-> "apply", ev |-> ev, ob |-> book]>>
  /\ pc' = "returned"
  /\ UNCHANGED <<strat, ns_batch>>
  /\ CallFrame

NextApply == ApplyEvent

SpecApply == InitApply /\ [][NextApply]_vars

\* ---- one event's effect
\* the step applies an event of kind t
ApplyStep(t) == pc = "ready" /\ pc' = "returned" /\ calls'[1].ev.type = t

\* the event of the step names an order the index holds
OnLiveOrder == calls'[1].ev.order_id \in DOMAIN book.index_

\* C21: an ExecuteOrder on a live order with a quantity below the order's
\* remaining quantity takes exactly the event quantity off the order and off
\* its level's aggregate; the order keeps its index entry and its place in
\* the FIFO, and the index, order_count, the level's order count and every
\* other level stay as they are.
C21_PartialExecuteReduces ==
  [][(ApplyStep("E") /\ OnLiveOrder)
     => LET ev == calls'[1].ev
            handle == book.index_[ev.order_id]
            m == MapOf(handle.side)
            level == book[m][handle.price]
        IN ev.quantity < level.fifo[handle.it].quantity
           => /\ book'.index_ = book.index_
              /\ order_count(book') = order_count(book)
              /\ book'[m][handle.price] =
                   [level EXCEPT !.aggregate = @ - ev.quantity,
                                 !.fifo = [@ EXCEPT ![handle.it] =
                                   [@ EXCEPT !.quantity = @ - ev.quantity]]]
              /\ \A side \in {"bids_", "asks_"} :
                   /\ DOMAIN book'[side] = DOMAIN book[side]
                   /\ \A p \in DOMAIN book[side] :
                        (side # m \/ p # handle.price)
                          => book'[side][p] = book[side][p]]_vars

\* an execute of 1 met order 2 with 2 remaining, second in a FIFO of two
C21_Witness ==
  /\ pc = "returned"
  /\ calls[1].ev.type = "E"
  /\ calls[1].ev.order_id = 2 /\ calls[1].ev.quantity = 1
  /\ DOMAIN calls[1].ob.index_ = {1, 2}
  /\ calls[1].ob.index_[2].side = "B" /\ calls[1].ob.index_[2].price = 20
  /\ calls[1].ob.index_[2].it = 2
  /\ calls[1].ob.bids_[20].aggregate = 3
  /\ calls[1].ob.bids_[20].fifo[2].quantity = 2
  /\ book.bids_[20].aggregate = 2
  /\ book.bids_[20].fifo[2].quantity = 1
  /\ book.bids_[20].fifo[2].id = 2

\* the price an execute of the step's event records: the event's own price,
\* or the price of the order it names when the event carries none
RecordedPrice ==
  IF calls'[1].ev.price # 0 THEN calls'[1].ev.price
  ELSE book.index_[calls'[1].ev.order_id].price

\* C22 as stated: after an ExecuteOrder on a live order, partial or full,
\* last_exec_price is the event's price if non-zero and else the order's
\* price; no other event and no execute of an unknown id changes it.
C22_ExecuteRecordsPrice ==
  [][(pc = "ready" /\ pc' = "returned")
     => IF calls'[1].ev.type = "E" /\ OnLiveOrder
        THEN book'.last_exec_price_ = RecordedPrice
        ELSE book'.last_exec_price_ = book.last_exec_price_]_vars

\* C22: after an ExecuteOrder on a live order with a quantity from 1 to
\* MAX_SUSPICIOUS_QUANTITY, partial or full, last_exec_price is the event's
\* price if non-zero and else the order's price; an execute with another
\* quantity, an execute of an unknown id and every other event leave
\* last_exec_price as it was.
C22_PlausibleExecuteRecordsPrice ==
  [][(pc = "ready" /\ pc' = "returned")
     => IF /\ calls'[1].ev.type = "E" /\ OnLiveOrder
           /\ calls'[1].ev.quantity >= 1
           /\ calls'[1].ev.quantity <= MAX_SUSPICIOUS_QUANTITY
        THEN book'.last_exec_price_ = RecordedPrice
        ELSE book'.last_exec_price_ = book.last_exec_price_]_vars

\* a book that last traded at 30 took a partial execute without a price on
\* the order 1 bidding 20
C22_Witness ==
  /\ pc = "returned"
  /\ calls[1].ev.type = "E"
  /\ calls[1].ev.order_id = 1 /\ calls[1].ev.quantity = 1
  /\ calls[1].ev.price = 0
  /\ calls[1].ob.last_exec_price_ = 30
  /\ 1 \in DOMAIN calls[1].ob.index_
  /\ calls[1].ob.index_[1].side = "B" /\ calls[1].ob.index_[1].price = 20
  /\ calls[1].ob.bids_[20].fifo[calls[1].ob.index_[1].it].quantity = 2
  /\ 1 \in DOMAIN book.index_
  /\ book.last_exec_price_ = 20

\* C23: a DeleteOrder for a live id removes the order whatever remains of
\* it: the order leaves its FIFO and the index, its level loses the remaining
\* quantity and one order or is erased if that order was its last, and
\* order_count drops by one; last_exec_price and trading_open stay.
C23_DeleteRemoves ==
  [][(ApplyStep("D") /\ OnLiveOrder)
     => /\ RemovedEntirely
        /\ book'.last_exec_price_ = book.last_exec_price_
        /\ book'.trading_open_ = book.trading_open_]_vars

\* an open book that traded at 30 lost order 1, which had nothing remaining
\* and stood first of two at its price
C23_Witness ==
  /\ pc = "returned"
  /\ calls[1].ev.type = "D" /\ calls[1].ev.order_id = 1
  /\ DOMAIN calls[1].ob.index_ = {1, 2}
  /\ calls[1].ob.index_[1].side = "S" /\ calls[1].ob.index_[1].price = 10
  /\ calls[1].ob.index_[1].it = 1
  /\ Len(calls[1].ob.asks_[10].fifo) = 2
  /\ calls[1].ob.asks_[10].fifo[1].quantity = 0
  /\ calls[1].ob.asks_[10].aggregate = 2
  /\ calls[1].ob.trading_open_ /\ calls[1].ob.last_exec_price_ = 30
  /\ DOMAIN book.index_ = {2}
  /\ Len(book.asks_[10].fifo) = 1
  /\ book.asks_[10].aggregate = 2
  /\ book.trading_open_ /\ book.last_exec_price_ = 30

\* C24: an ExecuteOrder or DeleteOrder whose id the index does not hold
\* leaves the book as it was: side maps, FIFOs, index, trading_open and
\* last_exec_price.
C24_UnknownIdIgnored ==
  [][((ApplyStep("E") \/ ApplyStep("D")) /\ ~OnLiveOrder)
     => /\ book'.bids_ = book.bids_
        /\ book'.asks_ = book.asks_
        /\ book'.index_ = book.index_
        /\ book'.trading_open_ = book.trading_open_
        /\ book'.last_exec_price_ = book.last_exec_price_]_vars

\* an execute of order 3 reached an open book that holds orders 1 and 2 and
\* traded at 30
C24_Witness ==
  /\ pc = "returned"
  /\ calls[1].ev.type = "E" /\ calls[1].ev.order_id = 3
  /\ calls[1].ev.quantity = 2
  /\ DOMAIN calls[1].ob.index_ = {1, 2}
  /\ calls[1].ob.last_exec_price_ = 30
  /\ book = calls[1].ob

\* C26: after a StateChange trading_open is true exactly when the state
\* string is "P_SUREKLI_ISLEM", whatever it was before; levels, index and
\* last_exec_price stay.
C26_StateSetsTradingOpen ==
  [][ApplyStep("O")
     => /\ book'.trading_open_ = (calls'[1].ev.orderbook_state = "P_SUREKLI_ISLEM")
        /\ book'.bids_ = book.bids_
        /\ book'.asks_ = book.asks_
        /\ book'.index_ = book.index_
        /\ book'.last_exec_price_ = book.last_exec_price_]_vars

\* an open book with orders got a state other than the two the program
\* names, and closed
C26_Witness ==
  /\ pc = "returned"
  /\ calls[1].ev.type = "O"
  /\ calls[1].ev.orderbook_state = "P_ARA"
  /\ calls[1].ob.trading_open_
  /\ calls[1].ob.last_exec_price_ = 30
  /\ DOMAIN calls[1].ob.index_ = {1, 2}
  /\ ~book.trading_open_
  /\ DOMAIN book.index_ = {1, 2}

\* ---- the queries
MaxSnapshotN == 3

\* C27: the best bid is the price and aggregate of the highest bid level
\* with a positive aggregate, the best ask those of the lowest such ask
\* level, each 0 when its side has no such level; has_top holds exactly when
\* both side maps hold a level, whatever its aggregate.
C27_BestOfSide ==
  /\ best_bid_price(book) =
       IF NonzeroBids(book) = {} THEN 0 ELSE MaxOf(NonzeroBids(book))
  /\ best_bid_quantity(book) =
       IF NonzeroBids(book) = {} THEN 0
       ELSE book.bids_[MaxOf(NonzeroBids(book))].aggregate
  /\ best_ask_price(book) =
       IF NonzeroAsks(book) = {} THEN 0 ELSE MinOf(NonzeroAsks(book))
  /\ best_ask_quantity(book) =
       IF NonzeroAsks(book) = {} THEN 0
       ELSE book.asks_[MinOf(NonzeroAsks(book))].aggregate
  /\ has_top(book) <=> /\ \E p \in DOMAIN book.bids_ : TRUE
                       /\ \E p \in DOMAIN book.asks_ : TRUE

\* bids at 20 with nothing to trade and at 10 with something, one ask level
\* with nothing: the best bid is 10, there is no best ask, and has_top holds
C27_Witness ==
  /\ pc = "returned"
  /\ DOMAIN book.bids_ = {10, 20}
  /\ book.bids_[20].aggregate = 0
  /\ book.bids_[10].aggregate = 2
  /\ DOMAIN book.asks_ = {20}
  /\ book.asks_[20].aggregate = 0
  /\ best_bid_price(book) = 10 /\ best_bid_quantity(book) = 2
  /\ best_ask_price(book) = 0 /\ best_ask_quantity(book) = 0
  /\ has_top(book)

\* out is the first Min(n, k) of the k levels in keep, best first, each with
\* its aggregate; better(p, q) says that p comes before q
FirstLevels(out, levels, keep, n, better(_, _)) ==
  /\ Len(out) = Min(n, Cardinality(keep))
  /\ \A i \in 1..Len(out) :
       /\ out[i][1] \in keep
       /\ out[i][2] = levels[out[i][1]].aggregate
       /\ \A j \in 1..Len(out) : i < j => better(out[i][1], out[j][1])
       /\ \A p \in keep :
            (\A j \in 1..Len(out) : out[j][1] # p) => better(out[i][1], p)

Higher(p, q) == p > q
Lower(p, q) == p < q

\* C28: for every n, snapshot_n gives per side the first Min(n, k) of the k
\* levels with a positive aggregate as (price, aggregate) pairs, bids
\* strictly descending and asks strictly ascending, levels without aggregate
\* neither listed nor counted; for n >= 1 the first entry of a side is its
\* best price and quantity.
C28_SnapshotLists ==
  \A n \in 0..MaxSnapshotN :
    \A snap \in {snapshot_n(book, n)} :
      /\ FirstLevels(snap.bids_out, book.bids_, NonzeroBids(book), n, Higher)
      /\ FirstLevels(snap.asks_out, book.asks_, NonzeroAsks(book), n, Lower)
      /\ (n >= 1 /\ NonzeroBids(book) # {})
           => snap.bids_out[1] = <<best_bid_price(book), best_bid_quantity(book)>>
      /\ (n >= 1 /\ NonzeroAsks(book) # {})
           => snap.asks_out[1] = <<best_ask_price(book), best_ask_quantity(book)>>

\* asks at 10 with nothing to trade and at 20 with something: the snapshot
\* of one level lists the ask at 20
C28_Witness ==
  /\ pc = "returned"
  /\ DOMAIN book.asks_ = {10, 20}
  /\ book.asks_[10].aggregate = 0
  /\ book.asks_[20].aggregate = 1
  /\ DOMAIN book.bids_ = {10}
  /\ snapshot_n(book, 1).asks_out = <<<<20, 1>>>>
  /\ snapshot_n(book, 1).bids_out = <<<<10, book.bids_[10].aggregate>>>>
  /\ book.bids_[10].aggregate > 0

\* C29 as stated: after every applied event the best bid price is below the
\* best ask price whenever both sides are non-empty.
C29_BidBelowAsk ==
  (pc = "returned" /\ has_top(book))
    => best_bid_price(book) < best_ask_price(book)

\* no bid that can trade is priced at or above an ask that can
Uncrossed(b) ==
  \A p \in NonzeroBids(b) : \A q \in NonzeroAsks(b) : p < q

\* ev is an AddOrder priced at or through a level of the other side of b
\* that can trade
CrossingAdd(b, ev) ==
  /\ ev.type = "A"
  /\ \/ ev.side = "B" /\ \E q \in NonzeroAsks(b) : ev.price >= q
     \/ ev.side # "B" /\ \E p \in NonzeroBids(b) : ev.price <= p

\* C29: when no tradable bid of the book is priced at or above a tradable
\* ask, and the event applied is not an AddOrder priced at or through the
\* other side, then after the event the best bid price is below the best ask
\* price whenever both sides hold a level with a positive aggregate.
C29_UncrossedFeedKeepsBidBelowAsk ==
  [][(/\ pc = "ready" /\ pc' = "returned"
      /\ Uncrossed(book)
      /\ ~CrossingAdd(book, calls'[1].ev))
     => ((best_bid_price(book') # 0 /\ best_ask_price(book') # 0)
           => best_bid_price(book') < best_ask_price(book'))]_vars

\* an ask of 1 at 20 joined a book that bids 10 and offers nothing: the
\* best bid 10 is below the best ask 20
C29_Witness ==
  /\ pc = "returned"
  /\ calls[1].ev.type = "A" /\ calls[1].ev.side = "S"
  /\ calls[1].ev.price = 20 /\ calls[1].ev.quantity = 1
  /\ NonzeroBids(calls[1].ob) = {10}
  /\ NonzeroAsks(calls[1].ob) = {}
  /\ best_bid_price(book) = 10
  /\ best_ask_price(book) = 20

\* ------------------------------------ specification: an add, then a delete
\* A book of ApplyBooks gets an AddOrder with the id 3, which no earlier
\* add used, and then a DeleteOrder; calls keeps both events and the books
\* from before each.  The new order ranks before or with the orders there.
FreshId == CHOOSE id \in ApplyIds : id \notin BookIds

FreshAdds ==
  {make_add(TARGET_BOOK, FreshId, s, px, qty, rt, 1, 0) :
     s \in BookSides, px \in BookPrices, qty \in {0, 1}, rt \in {0, 1}}

InitAddDelete == InitApply

AddFresh ==
  /\ pc = "ready"
  /\ \E ev \in FreshAdds :
       /\ book' = apply(book, ev)
       /\ calls' = <<[op |-> "apply", ev |-> ev, ob |-> book]>>
  /\ pc' = "added"
  /\ UNCHANGED <<strat, ns_batch>>
  /\ CallFrame

DeleteNext ==
  /\ pc = "added"
  /\ \E ev \in ApplyDeletes :
       /\ book' = apply(book, ev)
       /\ calls' = Append(calls, [op |-> "apply", ev |-> ev, ob |-> book])
  /\ pc' = "deleted"
  /\ UNCHANGED <<strat, ns_batch>>
  /\ CallFrame

NextAddDelete == AddFresh \/ DeleteNext

SpecAddDelete == InitAddDelete /\ [][NextAddDelete]_vars

\* C25: when the AddOrder of a fresh id is followed at once by the
\* DeleteOrder of that id, the snapshot of every depth, the best prices and
\* quantities, has_top, trading_open and last_exec_price are what they were
\* before the add; from the empty book the two leave no level and no index
\* entry.
C25_AddThenDeleteRestores ==
  [][(/\ pc = "added" /\ pc' = "deleted"
      /\ calls'[2].ev.order_id = calls[1].ev.order_id)
     => \A before \in {calls[1].ob} :
          /\ \A n \in 0..MaxSnapshotN :
               snapshot_n(book', n) = snapshot_n(before, n)
          /\ best_bid_price(book') = best_bid_price(before)
          /\ best_bid_quantity(book') = best_bid_quantity(before)
          /\ best_ask_price(book') = best_ask_price(before)
          /\ best_ask_quantity(book') = best_ask_quantity(before)
          /\ has_top(book') = has_top(before)
          /\ trading_open(book') = trading_open(before)
          /\ last_exec_price(book') = last_exec_price(before)
          /\ (DOMAIN before.bids_ = {} /\ DOMAIN before.asks_ = {}
              /\ DOMAIN before.index_ = {})
               => /\ DOMAIN book'.bids_ = {} /\ DOMAIN book'.asks_ = {}
                  /\ DOMAIN book'.index_ = {}]_vars

\* order 3 went in front of order 1 at the ask of 10, in an open book that
\* also bids 20 and traded at 30, and was deleted again
C25_Witness ==
  /\ pc = "deleted"
  /\ calls[1].ev.side = "S" /\ calls[1].ev.price = 10
  /\ calls[1].ev.quantity = 1 /\ calls[1].ev.ranking_time = 0
  /\ calls[2].ev.order_id = FreshId
  /\ DOMAIN calls[1].ob.index_ = {1, 2}
  /\ calls[1].ob.index_[1].side = "S" /\ calls[1].ob.index_[1].price = 10
  /\ calls[1].ob.index_[2].side = "B" /\ calls[1].ob.index_[2].price = 20
  /\ calls[1].ob.asks_[10].aggregate = 2
  /\ calls[1].ob.last_exec_price_ = 30
  /\ calls[2].ob.asks_[10].fifo[1].id = FreshId
  /\ calls[2].ob.asks_[10].aggregate = 3
  /\ book = calls[1].ob

\* ------------------------------------------------ decoder (itch_parser.cpp)
\* The byte source is a std::istream: data is the file, pos the number of
\* bytes read so far, fail tells that a read came up short.  read(n) on a
\* failed stream reads nothing; a read that finds fewer than n bytes takes
\* what is there and fails the stream (eofbit and failbit).  frames is not
\* part of the stream: it remembers where each packet the file was built
\* from starts and ends and which events its messages were encoded from.
\* Bytes are numbers 0..255; a text is the sequence of its character codes.
\* Every integer field of the model's files is below 2^31.
MOLDUDP64_HEADER_SIZE == 20
MAX_MESSAGE_COUNT == 10000
MAX_MESSAGE_LENGTH == 65535

read_u16_be(p) == p[1] * 256 + p[2]

read_u32_be(p) == ((p[1] * 256 + p[2]) * 256 + p[3]) * 256 + p[4]

read_u64_be(p) ==
  ((((((p[1] * 256 + p[2]) * 256 + p[3]) * 256 + p[4]) * 256 + p[5]) * 256
     + p[6]) * 256 + p[7]) * 256 + p[8]

\* 'B' 'S'
ParseSide(c) == IF c = 66 THEN "B" ELSE IF c = 83 THEN "S" ELSE "U"

\* 'O' 'A' 'E' 'D'
ParseMessageType(c) ==
  IF c = 79 THEN "O" ELSE IF c = 65 THEN "A" ELSE IF c = 69 THEN "E"
  ELSE IF c = 68 THEN "D" ELSE "Other"

\* Event{} as the decoder holds it: the state is a text, empty at first
DecodedEvent0 == [Event0 EXCEPT !.orderbook_state = <<>>]

\* a loop that drops one space at the end of the state field at most
strip_one_trailing_space(text) ==
  IF text # <<>> /\ text[Len(text)] = 32
  THEN SubSeq(text, 1, Len(text) - 1)
  ELSE text

\* the loop that drops the spaces at the end of the state field
RECURSIVE strip_trailing_spaces(_)
strip_trailing_spaces(text) ==
  IF text # <<>> /\ text[Len(text)] = 32
  THEN strip_trailing_spaces(SubSeq(text, 1, Len(text) - 1))
  ELSE text

\* msg holds the kind byte and the payload; cur starts behind the kind byte
parse_message(msg) ==
  LET type == ParseMessageType(msg[1])
      cur == Tail(msg)
      take(at, n) == SubSeq(cur, at + 1, at + n)
  IN IF Len(msg) < 1 THEN DecodedEvent0
     ELSE CASE type = "O" ->
            IF Len(cur) < 4 + 4 + 20 THEN DecodedEvent0
            ELSE [DecodedEvent0 EXCEPT
                    !.type = "O",
                    !.nanosec = read_u32_be(take(0, 4)),
                    !.orderbook_id = read_u32_be(take(4, 4)),
                    !.orderbook_state = strip_trailing_spaces(take(8, 20))]
       [] type = "A" ->
            IF Len(cur) < 4 + 8 + 4 + 1 + 4 + 8 + 4 + 2 + 1 + 8 THEN DecodedEvent0
            ELSE [DecodedEvent0 EXCEPT
                    !.type = "A",
                    !.nanosec = read_u32_be(take(0, 4)),
                    !.order_id = read_u64_be(take(4, 8)),
                    !.orderbook_id = read_u32_be(take(12, 4)),
                    !.side = ParseSide(take(16, 1)[1]),
                    !.ranking_seq_num = read_u32_be(take(17, 4)),
                    !.quantity = read_u64_be(take(21, 8)),
                    !.price = read_u32_be(take(29, 4)),
                    !.ranking_time = read_u64_be(take(36, 8))]
       [] type = "E" ->
            IF Len(cur) < 4 + 8 + 4 + 1 + 8 THEN DecodedEvent0
            ELSE [DecodedEvent0 EXCEPT
                    !.type = "E",
                    !.nanosec = read_u32_be(take(0, 4)),
                    !.order_id = read_u64_be(take(4, 8)),
                    !.orderbook_id = read_u32_be(take(12, 4)),
                    !.side = ParseSide(take(16, 1)[1]),
                    !.quantity = read_u64_be(take(17, 8))]
       [] type = "D" ->
            IF Len(cur) < 4 + 8 + 4 + 1 THEN DecodedEvent0
            ELSE [DecodedEvent0 EXCEPT
                    !.type = "D",
                    !.nanosec = read_u32_be(take(0, 4)),
                    !.order_id = read_u64_be(take(4, 8)),
                    !.orderbook_id = read_u32_be(take(12, 4)),
                    !.side = ParseSide(take(16, 1)[1])]
       [] OTHER -> DecodedEvent0

\* in_.read(buf, n): the stream afterwards and the bytes it delivered
read(in, n) ==
  IF in.fail THEN [in |-> in, bytes |-> <<>>]
  ELSE IF in.pos + n <= Len(in.data)
  THEN [in |-> [in EXCEPT !.pos = @ + n],
        bytes |-> SubSeq(in.data, in.pos + 1, in.pos + n)]
  ELSE [in |-> [in EXCEPT !.pos = Len(in.data), !.fail = TRUE],
        bytes |-> SubSeq(in.data, in.pos + 1, Len(in.data))]

\* a loop that throws away what it decoded when a payload is cut short
RECURSIVE read_messages_drop_on_short_payload(_, _, _)
read_messages_drop_on_short_payload(in, left, events) ==
  IF left = 0 THEN [in |-> in, events |-> events]
  ELSE
    LET lenbuf == read(in, 2)
    IN IF lenbuf.in.fail THEN [in |-> lenbuf.in, events |-> events]
       ELSE
         LET msg_len == read_u16_be(lenbuf.bytes)
         IN IF msg_len < 1 \/ msg_len > MAX_MESSAGE_LENGTH
            THEN [in |-> lenbuf.in, events |-> events]
            ELSE
              LET payload == read(lenbuf.in, msg_len)
              IN IF payload.in.fail
                 THEN [in |-> payload.in, events |-> <<>>]
                 ELSE
                   LET ev == parse_message(payload.bytes)
                   IN read_messages_drop_on_short_payload(
                        payload.in, left - 1,
                        IF ev.type # "Other"
                        THEN Append(events, ev) ELSE events)

\* a loop that gives the packet up at a message it cannot decode
RECURSIVE read_messages_stop_on_other(_, _, _)
read_messages_stop_on_other(in, left, events) ==
  IF left = 0 THEN [in |-> in, events |-> events]
  ELSE
    LET lenbuf == read(in, 2)
    IN IF lenbuf.in.fail THEN [in |-> lenbuf.in, events |-> events]
       ELSE
         LET msg_len == read_u16_be(lenbuf.bytes)
         IN IF msg_len < 1 \/ msg_len > MAX_MESSAGE_LENGTH
            THEN [in |-> lenbuf.in, events |-> events]
            ELSE
              LET payload == read(lenbuf.in, msg_len)
              IN IF payload.in.fail
                 THEN [in |-> payload.in, events |-> events]
                 ELSE
                   LET ev == parse_message(payload.bytes)
                   IN IF ev.type = "Other"
                      THEN [in |-> payload.in, events |-> events]
                      ELSE read_messages_stop_on_other(
                             payload.in, left - 1, Append(events, ev))

\* the for loop of next_packet with left messages still to read
RECURSIVE read_messages(_, _, _)
read_messages(in, left, events) ==
  IF left = 0 THEN [in |-> in, events |-> events]
  ELSE
    LET lenbuf == read(in, 2)
    IN IF lenbuf.in.fail THEN [in |-> lenbuf.in, events |-> events]
       ELSE
         LET msg_len == read_u16_be(lenbuf.bytes)
         IN IF msg_len < 1 \/ msg_len > MAX_MESSAGE_LENGTH
            THEN [in |-> lenbuf.in, events |-> events]
            ELSE
              LET payload == read(lenbuf.in, msg_len)
              IN IF payload.in.fail
                 THEN [in |-> payload.in, events |-> events]
                 ELSE
                   LET ev == parse_message(payload.bytes)
                   IN read_messages(payload.in, left - 1,
                                    IF ev.type # "Other"
                                    THEN Append(events, ev) ELSE events)

\* next_packet that sends a packet of MAX_MESSAGE_COUNT + 1 messages on
next_packet_count_off_by_one(in) ==
  LET header == read(in, MOLDUDP64_HEADER_SIZE)
  IN IF header.in.fail THEN [in |-> header.in, events |-> <<>>]
     ELSE
       LET count == read_u16_be(SubSeq(header.bytes, 19, 20))
       IN IF count = 0 \/ count > MAX_MESSAGE_COUNT + 1
          THEN [in |-> header.in, events |-> <<>>]
          ELSE read_messages(header.in, count, <<>>)

next_packet(in) ==
  LET header == read(in, MOLDUDP64_HEADER_SIZE)
  IN IF header.in.fail THEN [in |-> header.in, events |-> <<>>]
     ELSE
       LET count == read_u16_be(SubSeq(header.bytes, 19, 20))
       IN IF count = 0 \/ count > MAX_MESSAGE_COUNT
          THEN [in |-> header.in, events |-> <<>>]
          ELSE read_messages(header.in, count, <<>>)

\* -------------------------------------------- specification: the decoder
\* A file is up to MaxPackets packets end to end, each taken from a few
\* kinds: well-formed packets of one or two messages, packets whose header
\* counts 0 or MAX_MESSAGE_COUNT + 1 messages, with or without a message
\* behind the header, and a fragment shorter than a header.  The loop of
\* main calls next_packet while the stream is good.
MaxPackets == 2

RECURSIVE big_endian(_, _)
big_endian(value, width) ==
  IF width = 0 THEN <<>>
  ELSE big_endian(value \div 256, width - 1) \o <<value % 256>>

RECURSIVE Padded(_, _)
Padded(text, width) ==
  IF Len(text) >= width THEN text ELSE Padded(Append(text, 32), width)

SideCode(s) == IF s = "B" THEN 66 ELSE IF s = "S" THEN 83 ELSE 85

\* "P_SUREKLI_ISLEM"
ContinuousText ==
  <<80, 95, 83, 85, 82, 69, 75, 76, 73, 95, 73, 83, 76, 69, 77>>

\* "ITCHFEED01"
Session == <<73, 84, 67, 72, 70, 69, 69, 68, 48, 49>>

Header(count) == Session \o big_endian(1, 8) \o big_endian(count, 2)

Message(payload) == big_endian(Len(payload), 2) \o payload

EncodeState(ev) ==
  <<79>> \o big_endian(ev.nanosec, 4) \o big_endian(ev.orderbook_id, 4)
  \o Padded(ev.orderbook_state, 20)

EncodeAdd(ev) ==
  <<65>> \o big_endian(ev.nanosec, 4) \o big_endian(ev.order_id, 8)
  \o big_endian(ev.orderbook_id, 4) \o <<SideCode(ev.side)>>
  \o big_endian(ev.ranking_seq_num, 4) \o big_endian(ev.quantity, 8)
  \o big_endian(ev.price, 4) \o <<0, 0, 0>> \o big_endian(ev.ranking_time, 8)

EncodeExec(ev) ==
  <<69>> \o big_endian(ev.nanosec, 4) \o big_endian(ev.order_id, 8)
  \o big_endian(ev.orderbook_id, 4) \o <<SideCode(ev.side)>>
  \o big_endian(ev.quantity, 8)

EncodeDelete(ev) ==
  <<68>> \o big_endian(ev.nanosec, 4) \o big_endian(ev.order_id, 8)
  \o big_endian(ev.orderbook_id, 4) \o <<SideCode(ev.side)>>

Encode(ev) ==
  CASE ev.type = "O" -> EncodeState(ev)
    [] ev.type = "A" -> EncodeAdd(ev)
    [] ev.type = "E" -> EncodeExec(ev)
    [] ev.type = "D" -> EncodeDelete(ev)

RECURSIVE Messages(_)
Messages(evs) ==
  IF evs = <<>> THEN <<>> ELSE Message(Encode(Head(evs))) \o Messages(Tail(evs))

\* the events the model's packets carry, with the state as a text
WireState ==
  [make_state(TARGET_BOOK, "", 5) EXCEPT !.orderbook_state = ContinuousText]
WireAdd == [make_add(TARGET_BOOK, 7, "B", 10, 2, 3, 4, 5) EXCEPT !.orderbook_state = <<>>]
WireExec == [make_exec(TARGET_BOOK, 7, "B", 1, 6) EXCEPT !.orderbook_state = <<>>]
WireDelete == [make_del(TARGET_BOOK, 7, "B", 6) EXCEPT !.orderbook_state = <<>>]

\* a packet: the count its header states, the events its messages encode,
\* and its bytes
Packet(count, evs) ==
  [count |-> count, events |-> evs, bytes |-> Header(count) \o Messages(evs)]

Packets ==
  {Packet(1, <<WireDelete>>),
   Packet(1, <<WireExec>>),
   Packet(2, <<WireState, WireAdd>>),
   Packet(0, <<>>),
   Packet(MAX_MESSAGE_COUNT + 1, <<>>),
   Packet(MAX_MESSAGE_COUNT + 1, <<WireDelete>>),
   [count |-> 0, events |-> <<>>, bytes |-> SubSeq(Session, 1, 7)]}

RECURSIVE PacketSequences(_)
PacketSequences(n) ==
  IF n = 0 THEN {<<>>}
  ELSE {<<>>} \cup {<<p>> \o rest : p \in Packets, rest \in PacketSequences(n - 1)}

RECURSIVE FileOf(_, _)
FileOf(packets, sofar) ==
  IF packets = <<>> THEN sofar
  ELSE LET p == Head(packets)
       IN FileOf(Tail(packets),
                 [sofar EXCEPT
                    !.data = @ \o p.bytes,
                    !.frames = Append(@, [start |-> Len(sofar.data),
                                          end |-> Len(sofar.data) + Len(p.bytes),
                                          count |-> p.count,
                                          events |-> p.events])])

Files ==
  {FileOf(packets, [data |-> <<>>, pos |-> 0, fail |-> FALSE, frames |-> <<>>]) :
     packets \in PacketSequences(MaxPackets)}

InitParse ==
  /\ input \in Files
  /\ calls = <<>>
  /\ pc = "run"
  /\ book = EmptyBook
  /\ strat = Strategy(TARGET_BOOK, 100, 1000, 0)
  /\ cur_ns = 0
  /\ have_batch = FALSE
  /\ ns_batch = <<>>
  /\ batches_total = 0
  /\ msgs_total = 0
  /\ last = NoCall

ParseFrame == UNCHANGED <<book, strat, cur_ns, have_batch, ns_batch,
                          batches_total, msgs_total, last>>

\* while (file.good()) { auto events = parser.next_packet(); ... }
NextPacket ==
  /\ pc = "run"
  /\ ~input.fail
  /\ \E got \in {next_packet(input)} :
       /\ input' = got.in
       /\ calls' = Append(calls, [op |-> "next_packet", at |-> input.pos,
                                  events |-> got.events])
  /\ pc' = "run"
  /\ ParseFrame

EndOfFile ==
  /\ pc = "run"
  /\ input.fail
  /\ pc' = "done"
  /\ UNCHANGED <<input, calls>>
  /\ ParseFrame

NextParse == NextPacket \/ EndOfFile

SpecParse == InitParse /\ [][NextParse]_vars

\* ---- packets the decoder gives up on
\* the step is a call of next_packet
NextPacketStep == pc = "run" /\ Len(calls') = Len(calls) + 1

\* the count a header at the read position states, when a header is there
HeaderThere(in) == Len(in.data) - in.pos >= MOLDUDP64_HEADER_SIZE

HeaderCount(in) ==
  read_u16_be(SubSeq(in.data, in.pos + 19, in.pos + 20))

RejectedCount(count) == count = 0 \/ count > 10000

\* the call finds less than a header and returns no event
EmptyOnShortHeader ==
  ~HeaderThere(input) => calls'[Len(calls')].events = <<>>

\* the call finds a header counting 0 or more than 10000 messages and
\* returns no event, the stream still good
EmptyOnRejectedCount ==
  (HeaderThere(input) /\ RejectedCount(HeaderCount(input)))
    => calls'[Len(calls')].events = <<>> /\ ~input'.fail

\* the call before this one gave up on packet k of the file; this call
\* starts at packet k + 1 and returns what that packet holds
ResumesAtNextPacket ==
  \A k \in 1..(Len(input.frames) - 1) :
    (/\ calls # <<>>
     /\ calls[Len(calls)].at = input.frames[k].start
     /\ input.frames[k].end - input.frames[k].start >= MOLDUDP64_HEADER_SIZE
     /\ RejectedCount(input.frames[k].count))
      => /\ calls'[Len(calls')].at = input.frames[k + 1].start
         /\ LET next == input.frames[k + 1]
            IN (next.end - next.start >= MOLDUDP64_HEADER_SIZE
                /\ ~RejectedCount(next.count))
                 => calls'[Len(calls')].events = next.events

\* C30: next_packet returns no event at the end of the input, on less than
\* the 20 bytes of a header, and on a header that counts 0 or more than
\* 10000 messages; after it gave up on such a packet, the next call decodes
\* the next packet of the stream.
C30_RejectedPacketSkipped ==
  [][NextPacketStep
     => /\ EmptyOnShortHeader
        /\ EmptyOnRejectedCount
        /\ ResumesAtNextPacket]_vars

\* ---------------------------------- specification: the decoder feeding main
\* The while loop of main.cpp over a file: each iteration calls next_packet
\* and hands the events it returns to the for loop, which batches them,
\* applies them to the book and calls the strategy.  A file is one packet of
\* up to MaxMessages messages, each taken from a few kinds: a well-formed
\* message of every kind, state messages with and without padding, a message
\* one byte too short for its kind, a message of an unknown kind and a
\* length prefix of 0.  The packet is followed by one well-formed packet, or
\* is the last of the file and then possibly cut short inside its last
\* message by the end of the file.  last keeps where the most recent call of
\* next_packet started and the events it returned.
MaxMessages == 2

\* "P_MARJ_YAYIN_KAPANIS"
CloseText ==
  <<80, 95, 77, 65, 82, 74, 95, 89, 65, 89, 73, 78, 95, 75, 65, 80, 65, 78,
    73, 83>>

\* "P_ARA"
PauseText == <<80, 95, 65, 82, 65>>

Letters ==
  <<"A", "B", "C", "D", "E", "F", "G", "H", "I", "J", "K", "L", "M", "N",
    "O", "P", "Q", "R", "S", "T", "U", "V", "W", "X", "Y", "Z">>

\* the character of a code; the files of the model hold capital letters,
\* the underscore and the space only
CharOf(c) ==
  IF c \in 65..90 THEN Letters[c - 64]
  ELSE IF c = 95 THEN "_" ELSE IF c = 32 THEN " " ELSE "?"

\* orderbook_state.assign(state_start, state_len): the std::string that the
\* book, the loop of main and the strategy compare with their literals
RECURSIVE string_of(_)
string_of(text) ==
  IF text = <<>> THEN "" ELSE CharOf(Head(text)) \o string_of(Tail(text))

\* the Event next_packet hands to its caller
Delivered(ev) == [ev EXCEPT !.orderbook_state = string_of(@)]

\* the for loop of lines 134-168 over the events of one packet; the
\* end-of-day sentinel leaves the loop
RECURSIVE main_events(_, _)
main_events(sys, events) ==
  IF events = <<>> THEN sys
  ELSE IF eod_reached(Head(events)) THEN main_event(sys, Head(events))
  ELSE main_events(main_event(sys, Head(events)), Tail(events))

\* a message on the wire: the event it was encoded from, the length its
\* prefix states and the bytes behind the prefix, kind byte first
Wire(ev, payload) == [event |-> ev, length |-> Len(payload), payload |-> payload]

WireBytes(m) == big_endian(m.length, 2) \o m.payload

WireClose ==
  [make_state(TARGET_BOOK, "", 6) EXCEPT !.orderbook_state = CloseText]
WirePause ==
  [make_state(TARGET_BOOK, "", 6) EXCEPT !.orderbook_state = PauseText]

WellFormed == {WireState, WireClose, WirePause, WireAdd, WireExec, WireDelete}

OneByteShort == {WireState, WireAdd, WireExec, WireDelete}

\* 'X'
UnknownKind == Wire(WireDelete, <<88>> \o Tail(EncodeDelete(WireDelete)))

ZeroLength == Wire(DecodedEvent0, <<>>)

WireMessages ==
  {Wire(ev, Encode(ev)) : ev \in WellFormed}
  \cup {Wire(ev, SubSeq(Encode(ev), 1, Len(Encode(ev)) - 1)) : ev \in OneByteShort}
  \cup {UnknownKind, ZeroLength}

RECURSIVE MessageSequences(_)
MessageSequences(n) ==
  IF n = 0 THEN {<<>>}
  ELSE {<<>>} \cup {<<m>> \o rest : m \in WireMessages,
                                    rest \in MessageSequences(n - 1)}

RECURSIVE AllWireBytes(_)
AllWireBytes(msgs) ==
  IF msgs = <<>> THEN <<>> ELSE WireBytes(Head(msgs)) \o AllWireBytes(Tail(msgs))

\* how many bytes of its last message a packet cut short may keep: none,
\* half the prefix, the prefix alone, all but the last byte
Keeps(msgs) ==
  LET size == Len(WireBytes(msgs[Len(msgs)]))
  IN {0, 1, 2, size - 1} \cap (0..(size - 1))

\* the frame of a packet: where it lies in the file, its messages, and the
\* number of bytes of its last message that are there (-1: all of them)
Frame(start, msgs, kept) ==
  LET whole == Header(Len(msgs)) \o AllWireBytes(msgs)
      cut == IF kept = -1 THEN 0
             ELSE Len(WireBytes(msgs[Len(msgs)])) - kept
      bytes == SubSeq(whole, 1, Len(whole) - cut)
  IN [start |-> start, end |-> start + Len(bytes), msgs |-> msgs,
      kept |-> kept, bytes |-> bytes]

Follower(start) == Frame(start, <<Wire(WireExec, Encode(WireExec))>>, -1)

DecodeFile(msgs, kept, followed) ==
  LET first == Frame(0, msgs, kept)
      frames == IF followed THEN <<first, Follower(first.end)>> ELSE <<first>>
  IN [data |-> IF followed THEN first.bytes \o frames[2].bytes ELSE first.bytes,
      pos |-> 0, fail |-> FALSE, frames |-> frames]

DecodeFiles ==
  UNION {{DecodeFile(msgs, -1, followed) : followed \in BOOLEAN}
         \cup {DecodeFile(msgs, kept, FALSE) : kept \in Keeps(msgs)} :
           msgs \in MessageSequences(MaxMessages) \ {<<>>}}

InitDecode ==
  /\ input \in DecodeFiles
  /\ calls = <<>>
  /\ pc = "run"
  /\ book = EmptyBook
  /\ strat = Strategy(TARGET_BOOK, 100, 1000, 0)
  /\ cur_ns = 0
  /\ have_batch = FALSE
  /\ ns_batch = <<>>
  /\ batches_total = 0
  /\ msgs_total = 0
  /\ last = NoCall

\* one iteration of the while loop of lines 130-169
ReadPacket ==
  /\ pc = "run"
  /\ ~input.fail
  /\ \E got \in {next_packet(input)} :
       \E events \in {[i \in 1..Len(got.events) |-> Delivered(got.events[i])]} :
         /\ input' = got.in
         /\ last' = [at |-> input.pos, events |-> got.events]
         /\ Commit(main_events(Sys, events))
         /\ pc' = IF \E i \in 1..Len(events) : eod_reached(events[i])
                  THEN "done" ELSE "run"

\* the stream is no longer good: the loop ends and the final batch is flushed
FileEnd ==
  /\ pc = "run"
  /\ input.fail
  /\ Commit(flush_batch(Sys, cur_ns))
  /\ pc' = "done"
  /\ UNCHANGED <<input, last>>

NextDecode == ReadPacket \/ FileEnd

SpecDecode == InitDecode /\ [][NextDecode]_vars

\* ---- what a call of next_packet returns for the packet it started at
\* the packets of the file at whose header the most recent call started
CalledFrames ==
  {k \in 1..Len(input.frames) :
     last # NoCall /\ last.at = input.frames[k].start}

\* the message has a kind byte O, A, E or D and, behind it, at least the
\* bytes its kind needs
Decodable(m) ==
  /\ m.length >= 1
  /\ \/ m.payload[1] = 79 /\ m.length - 1 >= 28
     \/ m.payload[1] = 65 /\ m.length - 1 >= 44
     \/ m.payload[1] = 69 /\ m.length - 1 >= 25
     \/ m.payload[1] = 68 /\ m.length - 1 >= 17

\* the events the decodable messages were encoded from, in stream order
RECURSIVE EventsOf(_)
EventsOf(msgs) ==
  IF msgs = <<>> THEN <<>>
  ELSE (IF Decodable(Head(msgs)) THEN <<Head(msgs).event>> ELSE <<>>)
       \o EventsOf(Tail(msgs))

\* C31: when the end of the input cuts the length prefix or the payload of
\* message i of a packet short (the messages before it being there with a
\* length of at least 1), next_packet returns exactly the events decoded
\* from messages 1..i-1, in order, and nothing for message i.
C31_TruncatedPacketKeepsDecoded ==
  \A k \in CalledFrames :
    LET f == input.frames[k]
        i == Len(f.msgs)
    IN (f.kept # -1 /\ \A j \in 1..(i - 1) : f.msgs[j].length >= 1)
         => last.events = EventsOf(SubSeq(f.msgs, 1, i - 1))

\* the payload of the second message is cut short behind a well-formed add
C31_Witness ==
  /\ last # NoCall
  /\ last.at = 0
  /\ Len(input.frames[1].msgs) = 2
  /\ input.frames[1].kept > 2
  /\ last.events = <<WireAdd>>
  /\ input.fail

\* ---- a length prefix of 0
\* the first message of the packet whose length prefix is 0, if there is one
ZeroLengthAt(f) == {j \in 1..Len(f.msgs) : f.msgs[j].length = 0}

FirstOf(S) == CHOOSE j \in S : \A other \in S : j <= other

\* C32: when a message of a packet has length prefix 0, next_packet stops
\* decoding the packet and returns the events decoded before that message,
\* and the following call of next_packet starts at the header of the next
\* packet of the stream.
C32_ZeroLengthSkipsToNextPacket ==
  \A k \in CalledFrames :
    LET f == input.frames[k]
    IN (f.kept = -1 /\ ZeroLengthAt(f) # {})
         => /\ last.events = EventsOf(SubSeq(f.msgs, 1, FirstOf(ZeroLengthAt(f)) - 1))
            /\ (k < Len(input.frames) /\ pc = "run")
                 => input.pos = input.frames[k + 1].start

OpenField == ContinuousText \o <<32, 32, 32, 32, 32>>

\* the 20-byte state fields of the state messages of a packet, in order
RECURSIVE StateFields(_)
StateFields(msgs) ==
  IF msgs = <<>> THEN <<>>
  ELSE (IF Decodable(Head(msgs)) /\ Head(msgs).payload[1] = 79
        THEN <<SubSeq(Head(msgs).payload, 10, 29)>> ELSE <<>>)
       \o StateFields(Tail(msgs))

\* C37: the decoder strips all trailing spaces of the 20-byte state field:
\* no state event it returns ends in a space; once the loop of main has
\* taken a packet whose last state message holds "P_SUREKLI_ISLEM" and five
\* spaces (and that holds no end-of-day state), the book has trading open;
\* once it has taken a packet with a state message that holds
\* "P_MARJ_YAYIN_KAPANIS", the loop has ended and the strategy has closed
\* its day.
C37_StateFieldStripped ==
  /\ last # NoCall
       => \A i \in 1..Len(last.events) :
            LET text == last.events[i].orderbook_state
            IN text = <<>> \/ text[Len(text)] # 32
  /\ \A k \in CalledFrames :
       LET f == input.frames[k]
           fields == StateFields(f.msgs)
       IN (f.kept = -1 /\ ZeroLengthAt(f) = {})
            => /\ (/\ fields # <<>>
                   /\ fields[Len(fields)] = OpenField
                   /\ \A i \in 1..Len(fields) : fields[i] # CloseText)
                    => book.trading_open_
               /\ (\E i \in 1..Len(fields) : fields[i] = CloseText)
                    => pc = "done" /\ strat.day_closed_

\* the packet holds the padded continuous-trading state and the book is open
C37_Witness ==
  /\ last # NoCall
  /\ last.at = 0
  /\ input.frames[1].kept = -1
  /\ StateFields(input.frames[1].msgs) = <<OpenField>>
  /\ Len(last.events) = Len(input.frames[1].msgs)
  /\ book.trading_open_

\* ---- where an add puts its order
\* the FIFO of the one price level of SpecFifo, empty while the level is not
\* there
FifoOf(b) == IF 10 \in DOMAIN b.asks_ THEN b.asks_[10].fifo ELSE <<>>

\* the ranking key of order a is strictly greater than that of order b
RanksAfter(a, b) ==
  \/ a.ranking_time > b.ranking_time
  \/ a.ranking_time = b.ranking_time /\ a.ranking_seq_num > b.ranking_seq_num

\* C34: an add puts its order immediately before the first order of the
\* level's FIFO whose (ranking_time, ranking_seq) is strictly greater than
\* its own, or at the end if there is none; so it stands behind every order
\* with the same key, and the other orders keep their relative order.
C34_AddInsertsBeforeFirstGreater ==
  [][Len(FifoOf(book')) = Len(FifoOf(book)) + 1
       => \E p \in 1..Len(FifoOf(book')) :
            LET old == FifoOf(book)
                order == FifoOf(book')[p]
            IN /\ RemoveAt(FifoOf(book'), p) = old
               /\ \A i \in 1..(p - 1) : ~RanksAfter(old[i], order)
               /\ p <= Len(old) => RanksAfter(old[p], order)]_vars

\* two orders with the same key stand before one with a greater key: the
\* later of the two was added while the other was in the FIFO
C34_Witness ==
  /\ Len(FifoOf(book)) = 3
  /\ FifoOf(book)[1].ranking_time = 1 /\ FifoOf(book)[1].ranking_seq_num = 1
  /\ FifoOf(book)[2].ranking_time = 1 /\ FifoOf(book)[2].ranking_seq_num = 1
  /\ FifoOf(book)[3].ranking_time = 2
  /\ FifoOf(book)[1].id # FifoOf(book)[2].id

\* ---- executes of a quantity that makes no sense
\* C35: an ExecuteOrder of quantity 0 or of a quantity above 10^9 on a live
\* order is ignored: the order keeps its index entry, and the levels, the
\* FIFOs, the index, last_exec_price and trading_open are what they were;
\* so an execute of more than 10^9 removes no order although it covers the
\* order's remaining quantity.
C35_SuspiciousExecuteIgnored ==
  [][(ApplyStep("E") /\ OnLiveOrder)
     => LET ev == calls'[1].ev
        IN (ev.quantity = 0 \/ ev.quantity > 1000000000)
             => /\ ev.order_id \in DOMAIN book'.index_
                /\ book' = book]_vars

\* an execute of 10^9 + 1 met order 1 at price 10 in a book that traded at 30
C35_Witness ==
  /\ pc = "returned"
  /\ calls[1].ev.type = "E" /\ calls[1].ev.order_id = 1
  /\ calls[1].ev.quantity = 1000000001
  /\ 1 \in DOMAIN calls[1].ob.index_
  /\ calls[1].ob.index_[1].price = 10
  /\ calls[1].ob.last_exec_price_ = 30
  /\ 1 \in DOMAIN book.index_
  /\ book = calls[1].ob

\* ---------------------------------- specification: order ids used again
\* The book fed with buy orders of quantity 2, of two ids at two prices, so
\* that adds arrive for ids that are live, and with partial and full
\* executes and deletes of those ids.  calls holds the event of the latest
\* step.
MaxReuseOrders == 3

ReuseAdds ==
  {make_add(TARGET_BOOK, id, "B", px, 2, 1, 1, 0) :
     id \in BookIds, px \in BookPrices}

ReuseExecs ==
  {make_exec(TARGET_BOOK, id, "U", qty, 0) : id \in BookIds, qty \in {1, 2}}

ReuseStep(ev) ==
  /\ book' = apply(book, ev)
  /\ calls' = <<ev>>
  /\ UNCHANGED <<strat, cur_ns, have_batch, ns_batch, batches_total,
                 msgs_total, pc, input, last>>

ReuseAdd ==
  /\ TotalOrders(book) < MaxReuseOrders
  /\ \E ev \in ReuseAdds : ReuseStep(ev)

ReuseExec == \E ev \in ReuseExecs : ReuseStep(ev)

ReuseDelete == \E ev \in BookDeletes : ReuseStep(ev)

NextReuse == ReuseAdd \/ ReuseExec \/ ReuseDelete

SpecReuse == InitBook /\ [][NextReuse]_vars

\* ---- the order an add of a live id leaves behind
\* the places of the book's orders: side map, price, position in the FIFO
Places ==
  {<<m, p, i>> : m \in {"bids_", "asks_"}, p \in BookPrices, i \in 1..MaxReuseOrders}

Held(b, place) ==
  /\ place[2] \in DOMAIN b[place[1]]
  /\ place[3] <= Len(b[place[1]][place[2]].fifo)

OrderAt(b, place) == b[place[1]][place[2]].fifo[place[3]]

\* an order no index entry points at
Unindexed(b, place) ==
  /\ Held(b, place)
  /\ \A id \in DOMAIN b.index_ :
       ~(/\ MapOf(b.index_[id].side) = place[1]
         /\ b.index_[id].price = place[2]
         /\ b.index_[id].it = place[3])

\* the order at place of b is in the same level of after, no index entry
\* pointing at it, and counts in the level's aggregate and num_orders
StaysUnindexed(b, place, after) ==
  /\ place[2] \in DOMAIN after[place[1]]
  /\ LET level == after[place[1]][place[2]]
     IN /\ \E j \in 1..Len(level.fifo) :
             /\ level.fifo[j] = OrderAt(b, place)
             /\ Unindexed(after, <<place[1], place[2], j>>)
        /\ level.num_orders = Len(level.fifo)
        /\ level.aggregate = SumQty(level.fifo)

\* C36: an add whose order id is live overwrites the index entry, which then
\* points at the new order, while the earlier order stays in the FIFO of its
\* level and counts in the level's aggregate and num_orders; from then on no
\* event reaches the earlier order: it stays where it is through every later
\* event, its level with it.
C36_ReusedIdLeavesOrderBehind ==
  [][/\ (calls' # <<>> /\ calls'[1].type = "A"
         /\ calls'[1].order_id \in DOMAIN book.index_)
          => LET ev == calls'[1]
                 old == book.index_[ev.order_id]
                 new == book'.index_[ev.order_id]
             IN /\ new.side = ev.side /\ new.price = ev.price
                /\ LET order == book'[MapOf(new.side)][new.price].fifo[new.it]
                   IN /\ order.id = ev.order_id
                      /\ order.quantity = ev.quantity
                      /\ order.ranking_time = ev.ranking_time
                /\ StaysUnindexed(book, <<MapOf(old.side), old.price, old.it>>,
                                  book')
     /\ \A place \in Places :
          Unindexed(book, place) => StaysUnindexed(book, place, book')
     /\ Cardinality({place \in Places : Unindexed(book', place)})
          >= Cardinality({place \in Places : Unindexed(book, place)})]_vars

\* order 1 was added at 10, added again at 20 and deleted: the first order
\* is still at 10 and the index is empty
C36_Witness ==
  /\ calls # <<>> /\ calls[1].type = "D"
  /\ DOMAIN book.index_ = {}
  /\ DOMAIN book.bids_ = {10}
  /\ Len(book.bids_[10].fifo) = 1
  /\ book.bids_[10].fifo[1].id = 1
  /\ book.bids_[10].num_orders = 1
  /\ book.bids_[10].aggregate = 2

\* ------------------------------ specification: one batch on a thin book
\* One call of on_batch on a book that may hold orders of quantity 0, which
\* handle_add takes with a warning: a side whose orders all have quantity 0
\* has levels, so has_top holds, and no level with a positive aggregate, so
\* its best price reads 0.  The book holds any of six orders, one of them a
\* bid of quantity 0; the batch is at most MaxGapBatch adds of orders the
\* book does not hold and deletes of orders it holds; the strategy holds 0,
\* 1 or 3 units and a snapshot of a tight or a gapped book, one of the
\* snapshots taken while the bids had no quantity, or is fresh.
MaxGapBatch == 2

GapOrders ==
  {make_add(BOOK, 1, "B", 10, 1, 1, 1, 1),
   make_add(BOOK, 2, "B", 20, 1, 1, 2, 1),
   make_add(BOOK, 3, "S", 20, 1, 1, 3, 1),
   make_add(BOOK, 4, "S", 30, 1, 1, 4, 1),
   make_add(BOOK, 5, "B", 10, 0, 1, 5, 1),
   make_add(BOOK, 6, "S", 10, 1, 1, 6, 1)}

RECURSIVE AddAll(_, _)
AddAll(b, orders) ==
  IF orders = {} THEN b
  ELSE LET ev == CHOOSE e \in orders :
                   \A other \in orders : e.order_id <= other.order_id
       IN AddAll(apply(b, ev), orders \ {ev})

GapBooks ==
  {AddAll(IF open THEN handle_state(EmptyBook,
                                    make_state(BOOK, CONTINUOUS_STATE, 1))
          ELSE EmptyBook, orders) :
     open \in BOOLEAN, orders \in SUBSET GapOrders}

GapStrategies ==
  {[Strategy(BOOK, 2, 3, 0) EXCEPT
      !.position_ = pos, !.realized_pnl_ = -20 * pos,
      !.prev_bid_ = snap[1], !.prev_ask_ = snap[2], !.have_prev_ = TRUE] :
     pos \in CallPositions, snap \in CallSnapshots \cup {<<0, 10>>}}
  \cup {Strategy(BOOK, 2, 3, 0)}

\* the batches of at most n events that add orders the book does not hold
\* and delete orders it holds
RECURSIVE GapBatches(_, _)
GapBatches(b, n) ==
  IF n = 0 THEN {<<>>}
  ELSE {<<>>} \cup
       UNION {{<<ev>> \o rest : rest \in GapBatches(apply(b, ev), n - 1)} :
                ev \in {e \in GapOrders : e.order_id \notin DOMAIN b.index_}
                       \cup {make_del(BOOK, id, "U", 1) : id \in DOMAIN b.index_}}

InitGap ==
  /\ book \in GapBooks
  /\ strat \in GapStrategies
  /\ cur_ns = 0
  /\ have_batch = FALSE
  /\ ns_batch = <<>>
  /\ batches_total = 0
  /\ msgs_total = 0
  /\ pc = "ready"
  /\ input = <<>>
  /\ calls = <<>>
  /\ last = NoCall

\* strat.on_batch(ns, ob, batch) once ob has absorbed the batch
GapOnBatch ==
  /\ pc = "ready"
  /\ \E batch \in GapBatches(book, MaxGapBatch) :
       /\ book' = BuildBook(book, batch)
       /\ ns_batch' = batch
       /\ strat' = on_batch(strat, book', batch)
       /\ calls' = <<[op |-> "on_batch", strat |-> strat, ob |-> book]>>
       /\ pc' = "returned"
       /\ CallFrame

NextGap == GapOnBatch

SpecGap == InitGap /\ [][NextGap]_vars

\* ---- fills
GapStep == pc = "ready" /\ pc' = "returned"

\* the call made a fill: it moved the position or the profit without
\* closing the day
Filled ==
  /\ ~strat'.day_closed_
  /\ \/ strat'.position_ # strat.position_
     \/ strat'.realized_pnl_ # strat.realized_pnl_

\* C38: whenever the strategy makes a fill, the book after the batch has a
\* bid level and an ask level with a positive aggregate, and best_bid_price
\* and best_ask_price are both non-zero.
C38_FillOnRealLevels ==
  [][(GapStep /\ Filled)
     => /\ \E p \in DOMAIN book'.bids_ : book'.bids_[p].aggregate > 0
        /\ \E p \in DOMAIN book'.asks_ : book'.asks_[p].aggregate > 0
        /\ best_bid_price(book') # 0
        /\ best_ask_price(book') # 0]_vars

\* C39: the price of every fill is one tick inside the gap of the book after
\* the batch, best bid + PRICE_TICK = best ask - PRICE_TICK, for a buy and
\* for a sell; and one call of on_batch makes one fill at most: position and
\* profit move by one buy or by one sell of at most order_quantity units.
C39_FillOneTickInsideGap ==
  [][(GapStep /\ Filled)
     => \A px \in {best_bid_price(book') + 10} :
          /\ px = best_ask_price(book') - 10
          /\ \E q \in 1..strat.order_quantity_ :
               \/ /\ strat'.position_ = strat.position_ + q
                  /\ strat'.realized_pnl_ = strat.realized_pnl_ - q * px
               \/ /\ strat'.position_ = strat.position_ - q
                  /\ strat'.realized_pnl_ = strat.realized_pnl_ + q * px]_vars

\* the ask at 20 left a book of bid 10, asks 20 and 30, and the strategy
\* bought 2 at 20
C39_Witness ==
  /\ pc = "returned"
  /\ calls[1].strat.position_ = 0
  /\ calls[1].strat.prev_bid_ = 10 /\ calls[1].strat.prev_ask_ = 20
  /\ best_bid_price(book) = 10 /\ best_ask_price(book) = 30
  /\ 5 \notin DOMAIN book.index_
  /\ strat.position_ = 2
  /\ strat.realized_pnl_ = -40

\* ---------------------------------- specification: orders of unknown side
\* The book fed with orders of two ids whose side is Buy, Sell or Unknown
\* (the decoder's reading of any side byte but 'B' and 'S'), at two prices,
\* each id added while it is not live, and with partial and full executes
\* and deletes of those ids.  calls holds the event of the latest step.
SideAdds ==
  {make_add(TARGET_BOOK, id, s, px, qty, 1, 1, 0) :
     id \in BookIds, s \in {"B", "S", "U"}, px \in BookPrices, qty \in {1, 2}}

SideAdd ==
  \E ev \in SideAdds : ev.order_id \notin DOMAIN book.index_ /\ ReuseStep(ev)

SideExec == \E ev \in ReuseExecs : ReuseStep(ev)

SideDelete == \E ev \in BookDeletes : ReuseStep(ev)

NextSide == SideAdd \/ SideExec \/ SideDelete

SpecSide == InitBook /\ [][NextSide]_vars

\* ---- an order of unknown side
\* every level counts the orders of its FIFO, no level is empty, every
\* index entry points at the order of its id, every order has an entry, and
\* the bids hold the Buy orders and nothing else
SidesConsistent(b) ==
  /\ \A m \in {"bids_", "asks_"} : \A p \in DOMAIN b[m] :
       /\ b[m][p].fifo # <<>>
       /\ b[m][p].num_orders = Len(b[m][p].fifo)
       /\ b[m][p].aggregate = SumQty(b[m][p].fifo)
       /\ \A i \in 1..Len(b[m][p].fifo) :
            LET order == b[m][p].fifo[i]
            IN /\ order.price = p
               /\ (m = "bids_") = (order.side = "B")
               /\ order.id \in DOMAIN b.index_
               /\ b.index_[order.id] = [side |-> order.side, price |-> p, it |-> i]
  /\ \A id \in DOMAIN b.index_ :
       \E m \in {"bids_", "asks_"} :
         /\ b.index_[id].price \in DOMAIN b[m]
         /\ b.index_[id].it <= Len(b[m][b.index_[id].price].fifo)
         /\ b[m][b.index_[id].price].fifo[b.index_[id].it].id = id

\* the asks of b without the order of id
AsksWithout(b, id) ==
  LET kept == {p \in DOMAIN b.asks_ :
                 \E i \in 1..Len(b.asks_[p].fifo) : b.asks_[p].fifo[i].id # id}
  IN [p \in kept |->
        LET fifo == SelectSeq(b.asks_[p].fifo, LAMBDA o : o.id # id)
        IN [b.asks_[p] EXCEPT !.fifo = fifo, !.num_orders = Len(fifo),
                              !.aggregate = SumQty(fifo)]]

\* C40: an add whose side is Unknown is stored with the asks: it creates or
\* joins the ask level of its price and leaves the bids alone, it counts in
\* best_ask_price, best_ask_quantity and has_top, and a later execute or
\* delete of its id finds it there, reduces it or removes it from the asks
\* (its level with it when it was the last order); index, FIFOs and
\* aggregates agree after every step.
C40_UnknownSideOnAskSide ==
  [][calls' # <<>>
     => \A ev \in {calls'[1]} :
          /\ SidesConsistent(book')
          /\ (ev.type = "A" /\ ev.side = "U")
               => /\ book'.bids_ = book.bids_
                  /\ AsksWithout(book', ev.order_id) = book.asks_
                  /\ book'.index_[ev.order_id].side = "U"
                  /\ best_ask_price(book') # 0
                  /\ best_ask_price(book') <= ev.price
                  /\ best_ask_price(book') = ev.price
                       => best_ask_quantity(book') = book'.asks_[ev.price].aggregate
                  /\ has_top(book') = (DOMAIN book.bids_ # {})
          /\ (/\ ev.type \in {"E", "D"}
              /\ ev.order_id \in DOMAIN book.index_
              /\ book.index_[ev.order_id].side = "U")
               => LET handle == book.index_[ev.order_id]
                      order == book.asks_[handle.price].fifo[handle.it]
                  IN /\ book'.bids_ = book.bids_
                     /\ IF ev.type = "D" \/ ev.quantity >= order.quantity
                        THEN /\ ev.order_id \notin DOMAIN book'.index_
                             /\ book'.asks_ = AsksWithout(book, ev.order_id)
                        ELSE /\ book'.index_ = book.index_
                             /\ book'.asks_ =
                                  [book.asks_ EXCEPT ![handle.price] =
                                     [@ EXCEPT
                                        !.aggregate = @ - ev.quantity,
                                        !.fifo = [@ EXCEPT ![handle.it] =
                                          [@ EXCEPT !.quantity = @ - ev.quantity]]]]]_vars

\* the execute of 1 share of order 1, an order of unknown side and of 2
\* shares at 10, found it with the asks and left 1 share of it there,
\* behind no bid
C40_Witness ==
  /\ calls # <<>> /\ calls[1].type = "E" /\ calls[1].order_id = 1
  /\ calls[1].quantity = 1
  /\ 1 \in DOMAIN book.index_
  /\ book.index_[1].side = "U"
  /\ 10 \in DOMAIN book.asks_
  /\ book.asks_[10].aggregate = 1
  /\ book.asks_[10].fifo[1].id = 1
  /\ DOMAIN book.bids_ = {}

====
